---- MODULE Spec2Model ----
(***************************************************************************)
(* Model of the sentiment oracle's python engine (src/python-engine/app):  *)
(* the scoring engine (scoring/vibe_score.py), the EMA smoother            *)
(* (scoring/smoothing.py), the stream manager, the rolling deduplicator,   *)
(* the metrics tracker and the source router (ingestion/*.py,              *)
(* monitoring/ingestion_metrics.py).                                       *)
(*                                                                         *)
(* Numbers.  A Python float is an IEEE 754 binary64 number, and every      *)
(* operation on floats rounds as the hardware does.  Scores that the code  *)
(* rounds to two decimals are kept as integers in hundredths (6500 is      *)
(* 65.00); OfHundredths gives the float such a score is.                   *)
(*                                                                         *)
(* Python values.  None is the empty tuple <<>> and a present value x is   *)
(* <<x>>; a dict is a function on its keys; a list is a sequence.          *)
(***************************************************************************)
EXTENDS Integers, Sequences, FiniteSets, TLC

VARIABLES
    \* ---- scoring/vibe_score.py : one compute() call
    posts,              \* the argument of compute()
    snapshot,           \* None, or <<the dict compute() returned>>
    \* ---- scoring/smoothing.py : one Smoother instance
    alpha,              \* Smoother.alpha
    previous_score,     \* Smoother._previous_score (None or <<hundredths>>)
    history,            \* Smoother._history
    smoothed,           \* None, or <<the value the last smooth() returned>>
    smooth_arg,         \* None, or <<the raw_score the last smooth() was given>>
    other_smoother,     \* a second Smoother instance: alpha, _previous_score, _history
    \* ---- the process
    now,                \* the reading of the clock (time.monotonic(), seconds)
    mode,               \* config.INGESTION_MODE
    \* ---- ingestion/stream_manager.py : the global StreamManager
    fetch_interval,     \* StreamManager._fetch_interval
    last_fetch_time,    \* StreamManager._last_fetch_time (dict: source -> time)
    cache,              \* StreamManager._cache (dict: source -> list of posts)
    \* ---- ingestion/deduplicator.py : the global RollingDeduplicator
    window_size,        \* RollingDeduplicator._window_size
    hash_order,         \* RollingDeduplicator._hash_order (deque, oldest first)
    hash_set,           \* RollingDeduplicator._hash_set
    \* ---- monitoring/ingestion_metrics.py : the global IngestionMetricsTracker
    sources,            \* IngestionMetricsTracker._sources (dict: source -> SourceMetrics)
    dedup_count,        \* IngestionMetricsTracker._dedup_count
    total_cycles,       \* IngestionMetricsTracker._total_cycles
    \* ---- ingestion/source_router.py
    last_op,            \* what the last step did: a clock tick, or one get_posts() call
    \* ---- main.py
    last_oracle_response,   \* _last_oracle_response (None or <<the response cached>>)
    last_sentiment_response,    \* _last_sentiment_response (None or <<the response cached>>)
    response,           \* None, or <<what the last request was answered>>
    \* ---- nlp/model.py
    model_instance,     \* _model_instance (None or <<the pipeline loaded>>)
    \* ---- ingestion/twitter_dataset.py
    dataset,            \* _dataset (None or <<the rows loaded>>)
    rolling_index,      \* _rolling_index
    \* ---- threads
    threads,            \* dict: thread -> the call it is in, its position and its locals
    metrics_lock        \* IngestionMetricsTracker._lock (None or <<the thread holding it>>)

score_vars    == <<posts, snapshot>>
smoother_vars == <<alpha, previous_score, history, smoothed, smooth_arg, other_smoother>>
stream_vars   == <<fetch_interval, last_fetch_time, cache>>
dedup_vars    == <<window_size, hash_order, hash_set>>
metrics_vars  == <<sources, dedup_count, total_cycles>>
router_vars   == <<now, mode, stream_vars, dedup_vars, metrics_vars, last_op>>
twitter_vars  == <<dataset, rolling_index>>
api_vars      == <<last_oracle_response, last_sentiment_response, response, model_instance,
                   twitter_vars>>
thread_vars   == <<threads, metrics_lock>>
vars == <<score_vars, smoother_vars, router_vars, api_vars, thread_vars>>

None    == <<>>
Some(x) == <<x>>

(***************************************************************************)
(* Natural numbers of any size: little-endian sequences of 15-bit limbs    *)
(* without leading zero limbs (<<>> is 0)                                  *)
(***************************************************************************)
Base == 2^15

Limb(a, i) == IF i <= Len(a) THEN a[i] ELSE 0

RECURSIVE BTrim(_)
BTrim(a) == IF a # <<>> /\ a[Len(a)] = 0 THEN BTrim(SubSeq(a, 1, Len(a) - 1)) ELSE a

RECURSIVE BOfNat(_)
BOfNat(n) == IF n = 0 THEN <<>> ELSE <<n % Base>> \o BOfNat(n \div Base)

RECURSIVE BToNat(_)
BToNat(a) == IF a = <<>> THEN 0 ELSE a[1] + Base * BToNat(Tail(a))

RECURSIVE BCmpFrom(_, _, _)
BCmpFrom(a, b, i) ==
    IF i = 0 THEN 0
    ELSE IF a[i] < b[i] THEN -1
    ELSE IF a[i] > b[i] THEN 1
    ELSE BCmpFrom(a, b, i - 1)

\* -1, 0 or 1 as a < b, a = b or a > b
BCmp(a, b) ==
    IF Len(a) < Len(b) THEN -1
    ELSE IF Len(a) > Len(b) THEN 1
    ELSE BCmpFrom(a, b, Len(a))

RECURSIVE BAddFrom(_, _, _, _)
BAddFrom(a, b, i, c) ==
    IF i > Len(a) /\ i > Len(b) THEN (IF c = 0 THEN <<>> ELSE <<c>>)
    ELSE LET s == Limb(a, i) + Limb(b, i) + c
         IN  <<s % Base>> \o BAddFrom(a, b, i + 1, s \div Base)

BAdd(a, b) == BAddFrom(a, b, 1, 0)

RECURSIVE BSubFrom(_, _, _, _)
BSubFrom(a, b, i, borrow) ==
    IF i > Len(a) THEN <<>>
    ELSE LET d == a[i] - Limb(b, i) - borrow
         IN  IF d < 0 THEN <<d + Base>> \o BSubFrom(a, b, i + 1, 1)
             ELSE <<d>> \o BSubFrom(a, b, i + 1, 0)

\* a - b for a >= b
BSub(a, b) == BTrim(BSubFrom(a, b, 1, 0))

RECURSIVE BMulSmallFrom(_, _, _, _)
BMulSmallFrom(a, k, i, c) ==
    IF i > Len(a) THEN (IF c = 0 THEN <<>> ELSE <<c>>)
    ELSE LET p == a[i] * k + c
         IN  <<p % Base>> \o BMulSmallFrom(a, k, i + 1, p \div Base)

\* a * k + c for 1 <= k < Base and 0 <= c < Base
BMulSmall(a, k, c) == BMulSmallFrom(a, k, 1, c)

\* a * Base^n
BShiftLimbs(a, n) == IF a = <<>> THEN <<>> ELSE [i \in 1..n |-> 0] \o a

RECURSIVE BMul(_, _)
BMul(a, b) ==
    IF a = <<>> \/ b = <<>> THEN <<>>
    ELSE BAdd(IF b[1] = 0 THEN <<>> ELSE BMulSmall(a, b[1], 0),
              BShiftLimbs(BMul(a, Tail(b)), 1))

\* a * 2^s
BShl(a, s) == BShiftLimbs(BMulSmall(a, 2^(s % 15), 0), s \div 15)

RECURSIVE BDivSmallFrom(_, _, _, _)
BDivSmallFrom(a, k, i, r) ==
    IF i = 0 THEN <<>>
    ELSE LET cur == r * Base + a[i]
         IN  Append(BDivSmallFrom(a, k, i - 1, cur % k), cur \div k)

\* a \div k for 1 <= k < Base
BDivSmall(a, k) == BTrim(BDivSmallFrom(a, k, Len(a), 0))

\* a \div 2^s
BShr(a, s) ==
    IF s \div 15 >= Len(a) THEN <<>>
    ELSE BDivSmall(SubSeq(a, s \div 15 + 1, Len(a)), 2^(s % 15))

\* the number of bits of a
BBitLen(a) ==
    IF a = <<>> THEN 0
    ELSE 15 * (Len(a) - 1)
            + (CHOOSE k \in 1..15 : 2^(k - 1) <= a[Len(a)] /\ a[Len(a)] < 2^k)

\* bit i of a (bit 0 is the lowest)
BBit(a, i) == (Limb(a, i \div 15 + 1) \div 2^(i % 15)) % 2

BMulDigit(a, k) == IF k = 0 THEN <<>> ELSE BMulSmall(a, k, 0)

\* the digit r \div b, for r < b * Base and a b whose highest limb is at
\* least Base / 2: the estimate from the highest limbs is at most 2 too large
BDigit(r, b) ==
    LET n    == Len(b)
        top  == Limb(r, n + 1) * Base + Limb(r, n)
        qhat == IF top \div b[n] < Base THEN top \div b[n] ELSE Base - 1
    IN  IF BCmp(r, b) < 0 THEN 0
        ELSE IF BCmp(BMulDigit(b, qhat), r) <= 0 THEN qhat
        ELSE IF BCmp(BMulDigit(b, qhat - 1), r) <= 0 THEN qhat - 1
        ELSE qhat - 2

\* long division, from limb i of a down, with the remainder r so far
RECURSIVE BDivFrom(_, _, _, _)
BDivFrom(a, b, i, r) ==
    IF i = 0 THEN [q |-> <<>>, r |-> r]
    ELSE LET r1   == BTrim(<<a[i]>> \o r)
             d    == BDigit(r1, b)
             rest == BDivFrom(a, b, i - 1, BSub(r1, BMulDigit(b, d)))
         IN  [q |-> Append(rest.q, d), r |-> rest.r]

\* a \div b, and whether a % b # 0, for b > 0
BDivMod(a, b) ==
    LET s  == 15 - (BBitLen(b) - 15 * (Len(b) - 1))
        dv == BDivFrom(BShl(a, s), BShl(b, s), Len(BShl(a, s)), <<>>)
    IN  [q |-> BTrim(dv.q), inexact |-> dv.r # <<>>]

(***************************************************************************)
(* IEEE 754 binary64 (the Python float): sign * m * 2^e with               *)
(* 2^52 <= m < 2^53, or zero.  Every operation rounds its exact result to   *)
(* the nearest such number, ties to the even m.  The numbers of the model   *)
(* stay far from the overflow and subnormal ranges, which are not modelled. *)
(***************************************************************************)
Zero == [sign |-> 0, m |-> <<>>, e |-> 0]

\* sign * (Q + s) * 2^e rounded, for an integer Q > 0 and 0 <= s < 1 with
\* sticky = (s > 0)
RoundNat(sign, Q, sticky, e) ==
    LET bl == BBitLen(Q)
    IN  IF bl <= 53
        THEN [sign |-> sign, m |-> BShl(Q, 53 - bl), e |-> e - (53 - bl)]
        ELSE LET t    == bl - 53
                 m0   == BShr(Q, t)
                 c    == BCmp(BSub(Q, BShl(m0, t)), BShl(<<1>>, t - 1))
                 up   == c > 0 \/ (c = 0 /\ (sticky \/ m0[1] % 2 = 1))
                 m1   == IF up THEN BAdd(m0, <<1>>) ELSE m0
             IN  IF BBitLen(m1) > 53
                 THEN [sign |-> sign, m |-> BShr(m1, 1), e |-> e + t + 1]
                 ELSE [sign |-> sign, m |-> m1, e |-> e + t]

\* sign * (N / D) * 2^e rounded, for integers N > 0 and D > 0
RoundRatio(sign, N, D, e) ==
    LET k  == 55 - (BBitLen(N) - BBitLen(D))
        dv == IF k >= 0 THEN BDivMod(BShl(N, k), D) ELSE BDivMod(N, BShl(D, -k))
    IN  RoundNat(sign, dv.q, dv.inexact, e - k)

Abs(x) == IF x < 0 THEN -x ELSE x
Sign(x) == IF x < 0 THEN -1 ELSE IF x > 0 THEN 1 ELSE 0

\* float(k) of an int k
FInt(k) == IF k = 0 THEN Zero ELSE RoundNat(Sign(k), BOfNat(Abs(k)), FALSE, 0)

\* the float nearest to n/d (d > 0): a decimal literal, or int / int
Frac(n, d) ==
    IF n = 0 THEN Zero ELSE RoundRatio(Sign(n), BOfNat(Abs(n)), BOfNat(d), 0)

FMul(a, b) ==
    IF a.sign = 0 \/ b.sign = 0 THEN Zero
    ELSE RoundNat(a.sign * b.sign, BMul(a.m, b.m), FALSE, a.e + b.e)

\* a / b for b # 0
FDiv(a, b) ==
    IF a.sign = 0 THEN Zero ELSE RoundRatio(a.sign * b.sign, a.m, b.m, a.e - b.e)

FAdd(a, b) ==
    IF a.sign = 0 THEN b
    ELSE IF b.sign = 0 THEN a
    ELSE LET e0 == IF a.e < b.e THEN a.e ELSE b.e
             A  == BShl(a.m, a.e - e0)
             B  == BShl(b.m, b.e - e0)
             c  == BCmp(A, B)
         IN  IF a.sign = b.sign THEN RoundNat(a.sign, BAdd(A, B), FALSE, e0)
             ELSE IF c = 0 THEN Zero
             ELSE IF c > 0 THEN RoundNat(a.sign, BSub(A, B), FALSE, e0)
             ELSE RoundNat(b.sign, BSub(B, A), FALSE, e0)

\* |a| < |b| for a, b # 0
MagLess(a, b) == a.e < b.e \/ (a.e = b.e /\ BCmp(a.m, b.m) < 0)

FLess(a, b) ==
    IF a.sign # b.sign THEN a.sign < b.sign
    ELSE IF a.sign = 0 THEN FALSE
    ELSE IF a.sign = 1 THEN MagLess(a, b)
    ELSE MagLess(b, a)

FMax(a, b) == IF FLess(a, b) THEN b ELSE a
FMin(a, b) == IF FLess(b, a) THEN b ELSE a

\* the exact value of x times scale (1 <= scale < Base), rounded to the nearest
\* integer, ties to the even one
RoundScaled(x, scale) ==
    IF x.sign = 0 THEN 0
    ELSE LET N == BMulSmall(x.m, scale, 0)
         IN  IF x.e >= 0 THEN x.sign * BToNat(BShl(N, x.e))
             ELSE LET s  == -x.e
                      q  == BShr(N, s)
                      c  == BCmp(BSub(N, BShl(q, s)), BShl(<<1>>, s - 1))
                      up == c > 0 \/ (c = 0 /\ Limb(q, 1) % 2 = 1)
                  IN  x.sign * (BToNat(q) + IF up THEN 1 ELSE 0)

\* Python round(x, 2), as an integer number of hundredths: round() rounds the
\* exact binary value of x correctly, ties to even
round2(x) == RoundScaled(x, 100)

(***************************************************************************)
(* app/config.py                                                           *)
(***************************************************************************)
MIN_SCORE == -100
MAX_SCORE == 100
\* 1.5 and 0.3
ENGAGEMENT_WEIGHT_MULTIPLIER == Frac(3, 2)
EMA_ALPHA == Frac(3, 10)
MIN_POST_WORD_COUNT == 5
DEGRADED_BELOW_PERCENT == 50
MAX_POSTS == 50
RSS_FETCH_INTERVAL  == 30
DEDUP_WINDOW_SIZE   == 500

(***************************************************************************)
(* Bounds of the scoring inputs                                            *)
(***************************************************************************)
MaxPosts      == 2      \* longest list given to compute()
MaxEngagement == 2      \* engagement is drawn from 0..MaxEngagement
ConfDen       == 2      \* confidence is drawn from {0/ConfDen, ..., ConfDen/ConfDen}

Confidences == {Frac(k, ConfDen) : k \in 0..ConfDen}
Polarities  == {1, -1}
Sentiments  == [confidence : Confidences, polarity_score : Polarities]
\* an analyzed post; a post without an engagement key is read as engagement 1
AnalyzedPosts ==
    [sentiment : Sentiments, engagement : 0..MaxEngagement] \cup [sentiment : Sentiments]

RECURSIVE SeqsUpTo(_, _)
SeqsUpTo(S, n) ==
    IF n = 0 THEN {<<>>}
    ELSE LET shorter == SeqsUpTo(S, n - 1)
         IN  shorter \cup {Append(s, x) : s \in {t \in shorter : Len(t) = n - 1}, x \in S}

(***************************************************************************)
(* scoring/vibe_score.py                                                   *)
(***************************************************************************)
\* dict.get(key, default)
Get(d, k, default) == IF k \in DOMAIN d THEN d[k] ELSE default

\* weight = engagement * confidence * ENGAGEMENT_WEIGHT_MULTIPLIER
weight(post) ==
    FMul(FMul(FInt(Get(post, "engagement", 1)), post.sentiment.confidence),
         ENGAGEMENT_WEIGHT_MULTIPLIER)

\* a signal that leaves the polarity out
signal_unsigned(post) == weight(post)

\* signal = polarity * weight
signal(post) == FMul(FInt(post.sentiment.polarity_score), weight(post))

\* sum(s), and a total built with +=: the items are added from the first to the
\* last, each addition rounding (the sum() of CPython up to 3.11)
RECURSIVE FSum(_)
FSum(s) ==
    IF s = <<>> THEN FInt(0) ELSE FAdd(FSum(SubSeq(s, 1, Len(s) - 1)), s[Len(s)])

\* lines 58-61: polarity > 0 counts as positive, anything else as negative
RECURSIVE positive_count(_)
positive_count(ps) ==
    IF ps = <<>> THEN 0
    ELSE (IF ps[1].sentiment.polarity_score > 0 THEN 1 ELSE 0) + positive_count(Tail(ps))

\* every post counted as negative
negative_count_all(ps) == Len(ps)

RECURSIVE negative_count(_)
negative_count(ps) ==
    IF ps = <<>> THEN 0
    ELSE (IF ps[1].sentiment.polarity_score > 0 THEN 0 ELSE 1) + negative_count(Tail(ps))

\* max(MIN_SCORE, min(MAX_SCORE, raw_score))
clamp(x) == FMax(FInt(MIN_SCORE), FMin(FInt(MAX_SCORE), x))

\* the signals summed but not averaged, and the result not clamped
raw_score_sum_unclamped(signals, max_possible_weight) ==
    LET n == FInt(Len(signals))
        community_signal == FSum(signals)
        max_single_weight == FDiv(max_possible_weight, n)
        raw == IF FLess(FInt(0), max_possible_weight)
               THEN FMul(FDiv(community_signal, max_single_weight), FInt(100))
               ELSE FInt(0)
    IN  round2(raw)

\* the test of line 70 left out: the normalization is always made
has_ceiling_always(max_possible_weight) == TRUE

\* line 70: max_possible_weight > 0
has_ceiling(max_possible_weight) == FLess(FInt(0), max_possible_weight)

\* lines 65-78: mean signal over mean weight, times 100, clamped, rounded
raw_score_of(signals, max_possible_weight) ==
    LET n == FInt(Len(signals))
        community_signal == FDiv(FSum(signals), n)
        max_single_weight == FDiv(max_possible_weight, n)
        raw == IF has_ceiling(max_possible_weight)
               THEN FMul(FDiv(community_signal, max_single_weight), FInt(100))
               ELSE FInt(0)
    IN  round2(clamp(raw))

\* lines 45 and 63: the weights of the posts added up
total_weight(ps) == FSum([i \in 1..Len(ps) |-> weight(ps[i])])

\* the divisors of the divisions compute(ps) evaluates, in order: line 66 when
\* there is a signal, lines 71 and 72 when the test of line 70 passes.  A float
\* division by 0.0 or by the int 0 raises ZeroDivisionError.
divisors(ps) ==
    LET n == FInt(Len(ps))
    IN  (IF ps # <<>> THEN <<n>> ELSE <<>>)
        \o (IF ps # <<>> /\ has_ceiling(total_weight(ps))
            THEN <<n, FDiv(total_weight(ps), n)>>
            ELSE <<>>)

compute(ps) ==
    IF ps = <<>>
    THEN [raw_score |-> 0, post_count |-> 0, positive_count |-> 0, negative_count |-> 0]
    ELSE LET signals == [i \in 1..Len(ps) |-> signal(ps[i])]
             max_possible_weight == total_weight(ps)
         IN  [raw_score      |-> raw_score_of(signals, max_possible_weight),
              post_count     |-> Len(ps),
              positive_count |-> positive_count(ps),
              negative_count |-> negative_count(ps)]

(***************************************************************************)
(* scoring/smoothing.py                                                    *)
(***************************************************************************)
MaxHistory == 4     \* smooth() calls per Smoother instance
AlphaDen   == 4     \* alpha is drawn from {0/AlphaDen, ..., AlphaDen/AlphaDen} and EMA_ALPHA

Alphas == {Frac(k, AlphaDen) : k \in 0..AlphaDen} \cup {EMA_ALPHA}

\* raw scores given to smooth(), all within [MIN_SCORE, MAX_SCORE]; three decimals,
\* so that the rounding of the seed is not the identity
RawInputs ==
    {Frac(-100000, 1000), Frac(-99995, 1000), Frac(-33333, 1000), FInt(0),
     Frac(12345, 1000), FInt(50), Frac(99994, 1000), FInt(100)}

\* the float that round(x, 2) returns: the one nearest to h / 100
OfHundredths(h) == Frac(h, 100)

\* alpha * raw + (1 + alpha) * previous
ema_plus(a, raw_score, previous) ==
    FAdd(FMul(a, raw_score), FMul(FAdd(FInt(1), a), previous))

\* the weights exchanged: (1 - alpha) * raw + alpha * previous
ema_swapped(a, raw_score, previous) ==
    FAdd(FMul(FAdd(FInt(1), FMul(FInt(-1), a)), raw_score), FMul(a, previous))

\* alpha * raw + (1 - alpha) * previous
ema(a, raw_score, previous) ==
    FAdd(FMul(a, raw_score), FMul(FAdd(FInt(1), FMul(FInt(-1), a)), previous))

\* the history keeps only the value just returned
history_replace(hist, s) == <<s>>

\* line 39: self._history.append(smoothed)
history_append(hist, s) == Append(hist, s)

\* smooth() without the seed: a first call blends the input with 0
smooth_value_from_zero(a, prev, raw_score) ==
    round2(ema(a, raw_score, IF prev = None THEN FInt(0) ELSE OfHundredths(prev[1])))

\* the value Smoother.smooth(raw_score) returns and stores
smooth_value(a, prev, raw_score) ==
    IF prev = None
    THEN round2(raw_score)
    ELSE round2(ema(a, raw_score, OfHundredths(prev[1])))

\* Smoother.smooth(raw_score)
Smooth(raw_score) ==
    /\ Len(history) < MaxHistory
    /\ LET s == smooth_value(alpha, previous_score, raw_score)
       IN  /\ previous_score' = Some(s)
           /\ history' = history_append(history, s)
           /\ smoothed' = Some(s)
    /\ smooth_arg' = Some(raw_score)
    /\ UNCHANGED <<alpha, other_smoother, score_vars, router_vars, api_vars, thread_vars>>

\* Smoother(alpha): lines 21-24
Smoother(a) == [alpha |-> a, previous_score |-> None, history |-> <<>>, returned |-> None]

\* smooth(raw_score) on the second instance; returned is the value it returned
MaxOtherHistory == 2    \* smooth() calls on the second instance
SmoothOther(raw_score) ==
    /\ Len(other_smoother.history) < MaxOtherHistory
    /\ LET s == smooth_value(other_smoother.alpha, other_smoother.previous_score, raw_score)
       IN  other_smoother' = [other_smoother EXCEPT
                                 !.previous_score = Some(s),
                                 !.history = history_append(@, s),
                                 !.returned = Some(s)]
    /\ UNCHANGED <<alpha, previous_score, history, smoothed, smooth_arg, score_vars,
                   router_vars, api_vars, thread_vars>>

SmoothInit ==
    /\ alpha \in Alphas
    /\ previous_score = None
    /\ history = <<>>
    /\ smoothed = None
    /\ smooth_arg = None
    /\ other_smoother = Smoother(EMA_ALPHA)

SmoothIdle ==
    /\ alpha = EMA_ALPHA
    /\ previous_score = None
    /\ history = <<>>
    /\ smoothed = None
    /\ smooth_arg = None
    /\ other_smoother = Smoother(EMA_ALPHA)

(***************************************************************************)
(* Python dicts and texts                                                  *)
(***************************************************************************)
\* d[k] = v
Put(d, k, v) == [x \in DOMAIN d \cup {k} |-> IF x = k THEN v ELSE d[x]]
EmptyDict == <<>>
\* bool(d) of a dict or a list
Truthy(d) == DOMAIN d # {}

\* A text is a sequence of characters.  The characters of the model are the
\* letters a, b, A, B, the space, and one token per mock post.
Lower(c) == CASE c = "A" -> "a" [] c = "B" -> "b" [] OTHER -> c
IsSpace(c) == c = " "

RECURSIVE lstrip(_)
lstrip(t) == IF t # <<>> /\ IsSpace(t[1]) THEN lstrip(Tail(t)) ELSE t
RECURSIVE rstrip(_)
rstrip(t) ==
    IF t # <<>> /\ IsSpace(t[Len(t)]) THEN rstrip(SubSeq(t, 1, Len(t) - 1)) ELSE t
\* str.strip(), str.lower(), len(str.split())
strip(t) == rstrip(lstrip(t))
lower(t) == [i \in 1..Len(t) |-> Lower(t[i])]
word_count(t) ==
    Cardinality({i \in 1..Len(t) : ~IsSpace(t[i]) /\ (i = 1 \/ IsSpace(t[i - 1]))})

\* k copies of the one-character word c, separated by single spaces
RECURSIVE Words(_, _)
Words(c, k) == IF k <= 1 THEN <<c>> ELSE Words(c, k - 1) \o <<" ", c>>

(***************************************************************************)
(* The source adapters                                                     *)
(***************************************************************************)
MaxBatch == 3       \* the most posts a feed adapter returns in one call

\* the text of the i-th post of a feed: the second is a case and whitespace variant
\* of the first, the fourth is shorter than MIN_POST_WORD_COUNT words
TextOf(i) ==
    CASE i = 1 -> Words("a", 5)
      [] i = 2 -> <<" ">> \o Words("A", 5) \o <<" ">>
      [] i = 3 -> Words("b", 5)
      [] i = 4 -> Words("a", 4)
      [] OTHER -> Words("b", i + 2)

\* a post as reddit_rss.py and twitter_dataset.py build it: six keys
RawPost(s, i) ==
    [id |-> <<s, i>>, text |-> TextOf(i), engagement |-> 10, timestamp |-> "ts",
     author |-> None, source |-> s]

AdapterLists(s) == {[i \in 1..k |-> RawPost(s, i)] : k \in 0..MaxBatch}

\* what a call of fetch_reddit_posts / fetch_twitter_posts can do: raise; return the
\* posts it built; or suffer an internal failure (a timeout, an unreadable dataset),
\* which its except branch answers with the empty list
FetchOutcomes(s) ==
    {[raises |-> TRUE]}
        \cup {[raises |-> FALSE, failure |-> FALSE, results |-> l] : l \in AdapterLists(s)}
        \cup {[raises |-> FALSE, failure |-> TRUE, results |-> <<>>]}

\* mock_stream.py: the word count and the engagement of each of the 21 posts
MockWords ==
    <<11, 14, 14, 8, 12, 12, 11, 11, 12, 12, 12, 7, 1, 8, 1, 13, 11, 12, 11, 14, 11>>
MockEngagement ==
    <<342, 218, 189, 410, 156, 287, 195, 320, 265, 145, 178, 12, 3, 8, 1, 98, 134, 167,
      112, 203, 176>>
\* a mock post has four keys; its text is abbreviated to its word count of a token
\* of its own (the 21 texts are pairwise different)
MockPost(i) ==
    [text |-> Words(ToString(i), MockWords[i]), engagement |-> MockEngagement[i],
     timestamp |-> "ts", author |-> "mock"]
MockPosts == [i \in 1..Len(MockWords) |-> MockPost(i)]
Reverse(l) == [i \in 1..Len(l) |-> l[Len(l) + 1 - i]]
\* fetch_posts(): the posts in an order random.shuffle chose (two of the orders)
fetch_posts == {MockPosts, Reverse(MockPosts)}

(***************************************************************************)
(* ingestion/deduplicator.py                                               *)
(***************************************************************************)
\* the digest of the text as it is, not normalized
compute_hash_raw(text) == <<"sha256", text>>

\* SHA256 of the normalized text; the digest is taken to be collision free
compute_hash(text) == <<"sha256", lower(strip(text))>>

\* a duplicate moves its hash to the back of the queue before it is dropped
RECURSIVE dedup_loop_refreshing(_, _, _, _)
dedup_loop_refreshing(ps, order, set, result) ==
    IF ps = <<>>
    THEN [hash_order |-> order, hash_set |-> set, result |-> result]
    ELSE LET post == ps[1]
             text == Get(post, "text", <<>>)
             text_hash == compute_hash(text)
         IN  IF word_count(text) < MIN_POST_WORD_COUNT
             THEN dedup_loop_refreshing(Tail(ps), order, set, result)
             ELSE IF text_hash \in set
             THEN dedup_loop_refreshing(Tail(ps),
                        Append(SelectSeq(order, LAMBDA h : h # text_hash), text_hash),
                        set, result)
             ELSE dedup_loop_refreshing(Tail(ps), Append(order, text_hash),
                                        set \cup {text_hash}, Append(result, post))

\* the loop of deduplicate(): lines 52-67
RECURSIVE dedup_loop(_, _, _, _)
dedup_loop(ps, order, set, result) ==
    IF ps = <<>>
    THEN [hash_order |-> order, hash_set |-> set, result |-> result]
    ELSE LET post == ps[1]
             text == Get(post, "text", <<>>)
             text_hash == compute_hash(text)
         IN  IF word_count(text) < MIN_POST_WORD_COUNT
             THEN dedup_loop(Tail(ps), order, set, result)
             ELSE IF text_hash \in set
             THEN dedup_loop(Tail(ps), order, set, result)
             ELSE dedup_loop(Tail(ps), Append(order, text_hash), set \cup {text_hash},
                             Append(result, post))

\* nothing is evicted
evict_none(order, set, size) == [hash_order |-> order, hash_set |-> set]

\* _evict_oldest(): pop from the left until the window size is respected
RECURSIVE evict_oldest(_, _, _)
evict_oldest(order, set, size) ==
    IF Len(order) > size
    THEN evict_oldest(Tail(order), set \ {order[1]}, size)
    ELSE [hash_order |-> order, hash_set |-> set]

\* RollingDeduplicator.deduplicate(posts): the new window and the surviving posts
deduplicate(order, set, size, ps) ==
    LET l == dedup_loop(ps, order, set, <<>>)
        e == evict_oldest(l.hash_order, l.hash_set, size)
    IN  [hash_order |-> e.hash_order, hash_set |-> e.hash_set, result |-> l.result]

MaxWindow     == 2     \* window_size of a RollingDeduplicator is drawn from 1..MaxWindow
MaxDedupBatch == 2     \* longest list given to deduplicate()

\* the posts given to deduplicate(): the five texts of a feed, three different
\* normalized texts among them
DedupPosts == {RawPost("reddit", i) : i \in 1..5}

\* the normalized texts of a list of posts
Normalized(ps) == {lower(strip(ps[i].text)) : i \in 1..Len(ps)}

\* the last n items of a list
LastN(l, n) == IF Len(l) <= n THEN l ELSE SubSeq(l, Len(l) - n + 1, Len(l))

\* deduplicate(posts) on one RollingDeduplicator.  last_op tells the argument and
\* the list returned, and keeps the normalized texts of every post admitted so far
\* (admitted) and those of the last window_size posts admitted, oldest first
\* (recent).
Deduplicate ==
    \E ps \in SeqsUpTo(DedupPosts, MaxDedupBatch) :
    \E dd \in {deduplicate(hash_order, hash_set, window_size, ps)} :
        /\ hash_order' = dd.hash_order
        /\ hash_set' = dd.hash_set
        /\ last_op' = [op       |-> "deduplicate",
                       posts    |-> ps,
                       result   |-> dd.result,
                       admitted |-> last_op.admitted \cup Normalized(dd.result),
                       readmitted |-> last_op.admitted \cap Normalized(dd.result),
                       recent   |-> LastN(last_op.recent \o
                                            [i \in 1..Len(dd.result) |->
                                                lower(strip(dd.result[i].text))],
                                          window_size)]
        /\ UNCHANGED <<window_size, now, mode, stream_vars, metrics_vars, score_vars,
                       smoother_vars, api_vars, thread_vars>>

(***************************************************************************)
(* ingestion/aggregator.py                                                 *)
(***************************************************************************)
MaxAggLen == 3      \* longest list given to aggregate()
MaxCap    == 2      \* MAX_POSTS is drawn from 1..MaxCap and the configured value

\* the digest of the text as it is, not normalized
text_hash_raw(text) == <<"md5", text>>

\* MD5 of the normalized text; the digest is taken to be collision free
text_hash(text) == <<"md5", lower(strip(text))>>

\* the sort key: lambda p: p.get("engagement", 0)
sort_key(post) == Get(post, "engagement", 0)

\* post put into a list sorted by descending key, behind the items whose key is
\* not smaller (sorted(..., reverse=True) is stable)
insert_sorted(l, post) ==
    LET before == {i \in 1..Len(l) : sort_key(l[i]) >= sort_key(post)}
        k == Cardinality(before)
    IN  SubSeq(l, 1, k) \o <<post>> \o SubSeq(l, k + 1, Len(l))

\* sorted(posts, key=..., reverse=True)
RECURSIVE sorted_posts(_)
sorted_posts(ps) ==
    IF ps = <<>> THEN <<>>
    ELSE insert_sorted(sorted_posts(SubSeq(ps, 1, Len(ps) - 1)), ps[Len(ps)])

\* lines 30-37: the first post of each text hash
RECURSIVE unique_posts(_, _, _)
unique_posts(ps, seen_hashes, acc) ==
    IF ps = <<>> THEN acc
    ELSE LET h == text_hash(Get(ps[1], "text", <<>>))
         IN  IF h \in seen_hashes
             THEN unique_posts(Tail(ps), seen_hashes, acc)
             ELSE unique_posts(Tail(ps), seen_hashes \cup {h}, Append(acc, ps[1]))

\* the slice taken from the second item on
aggregate_from_second(ps, max_posts) ==
    LET u == unique_posts(sorted_posts(ps), {}, <<>>)
    IN  SubSeq(u, 2, IF Len(u) < max_posts THEN Len(u) ELSE max_posts)

\* aggregate(posts) with MAX_POSTS = max_posts
aggregate(ps, max_posts) ==
    LET u == unique_posts(sorted_posts(ps), {}, <<>>)
    IN  SubSeq(u, 1, IF Len(u) < max_posts THEN Len(u) ELSE max_posts)

\* the sentiment the classifier gave the text of the i-th post of a feed
SentimentOf(i) ==
    IF i = 3 THEN [confidence |-> Frac(1, 1), polarity_score |-> -1]
    ELSE [confidence |-> Frac(1, 2), polarity_score |-> 1]

\* the posts given to aggregate(): four texts (the second a variant of the first),
\* engagement 0, MaxEngagement or none
AggPosts ==
    UNION {{[text |-> TextOf(i), sentiment |-> SentimentOf(i)]}
             \cup {[text |-> TextOf(i), sentiment |-> SentimentOf(i), engagement |-> e] :
                      e \in {0, MaxEngagement}} : i \in 1..4}

Caps == (1..MaxCap) \cup {MAX_POSTS}

\* aggregate(posts) followed by compute() of what it returned; snapshot tells the
\* configured MAX_POSTS, the list returned and the score
Aggregate ==
    /\ snapshot = None
    /\ \E max_posts \in Caps :
       \E out \in {aggregate(posts, max_posts)} :
          snapshot' = Some([op |-> "aggregate", max_posts |-> max_posts, result |-> out,
                            scored |-> compute(out)])
    /\ UNCHANGED <<posts, smoother_vars, router_vars, api_vars, thread_vars>>

AggInit ==
    /\ posts \in SeqsUpTo(AggPosts, MaxAggLen)
    /\ snapshot = None

(***************************************************************************)
(* monitoring/ingestion_metrics.py                                         *)
(***************************************************************************)
SourceMetrics ==
    [fetch_count |-> 0, success_count |-> 0, failure_count |-> 0, total_posts |-> 0,
     total_latency_ms |-> 0, last_fetch_time |-> None, last_error |-> None]

\* a record_fetch that does not count a failed attempt among the failures
record_fetch_failure_uncounted(srcs, source, success, post_count, latency_ms, error, wall) ==
    LET m  == IF source \in DOMAIN srcs THEN srcs[source] ELSE SourceMetrics
        m1 == [m EXCEPT !.fetch_count = @ + 1]
        m2 == IF success
              THEN [m1 EXCEPT !.success_count = @ + 1,
                              !.total_posts = @ + post_count,
                              !.total_latency_ms = @ + latency_ms]
              ELSE [m1 EXCEPT !.last_error = error]
    IN  Put(srcs, source, [m2 EXCEPT !.last_fetch_time = Some(wall)])

\* a record_fetch that counts the attempt as a success whatever the flag says
record_fetch_as_success(srcs, source, success, post_count, latency_ms, error, wall) ==
    LET m == IF source \in DOMAIN srcs THEN srcs[source] ELSE SourceMetrics
    IN  Put(srcs, source, [m EXCEPT !.fetch_count = @ + 1,
                                    !.success_count = @ + 1,
                                    !.total_posts = @ + post_count,
                                    !.total_latency_ms = @ + latency_ms,
                                    !.last_fetch_time = Some(wall)])

\* IngestionMetricsTracker.record_fetch; wall is the reading of datetime.now()
record_fetch(srcs, source, success, post_count, latency_ms, error, wall) ==
    LET m  == IF source \in DOMAIN srcs THEN srcs[source] ELSE SourceMetrics
        m1 == [m EXCEPT !.fetch_count = @ + 1]
        m2 == IF success
              THEN [m1 EXCEPT !.success_count = @ + 1,
                              !.total_posts = @ + post_count,
                              !.total_latency_ms = @ + latency_ms]
              ELSE [m1 EXCEPT !.failure_count = @ + 1, !.last_error = error]
    IN  Put(srcs, source, [m2 EXCEPT !.last_fetch_time = Some(wall)])

\* IngestionMetricsTracker.record_dedup, record_cycle
record_dedup(count, collapsed_count) == count + collapsed_count
record_cycle(cycles) == cycles + 1

\* SourceMetrics.success_rate, avg_latency_ms, avg_posts_per_fetch
success_rate(m) ==
    IF m.fetch_count = 0 THEN FInt(0)
    ELSE FMul(Frac(m.success_count, m.fetch_count), FInt(100))
avg_latency_ms(m) ==
    IF m.success_count = 0 THEN FInt(0)
    ELSE FDiv(FInt(m.total_latency_ms), FInt(m.success_count))
avg_posts_per_fetch(m) ==
    IF m.success_count = 0 THEN FInt(0) ELSE Frac(m.total_posts, m.success_count)

\* IngestionMetricsTracker.get_metrics: the snapshot it returns (the rounded values
\* in hundredths)
get_metrics(srcs, dedup, cycles) ==
    [total_cycles          |-> cycles,
     total_dedup_collapsed |-> dedup,
     sources |-> [name \in DOMAIN srcs |->
        [fetch_count          |-> srcs[name].fetch_count,
         success_count        |-> srcs[name].success_count,
         failure_count        |-> srcs[name].failure_count,
         success_rate_percent |-> round2(success_rate(srcs[name])),
         total_posts          |-> srcs[name].total_posts,
         avg_posts_per_fetch  |-> round2(avg_posts_per_fetch(srcs[name])),
         avg_latency_ms       |-> round2(avg_latency_ms(srcs[name])),
         last_fetch_time      |-> srcs[name].last_fetch_time,
         last_error           |-> srcs[name].last_error]]]

(***************************************************************************)
(* The tracker's methods called from several threads.  A thread runs one    *)
(* method, one statement at a time; x += k is a load of x followed by a     *)
(* store of the value loaded plus k, and another thread may run in between. *)
(***************************************************************************)
NumThreads == 3     \* threads that call the tracker

\* the statements of a method between the acquisition and the release of the lock
statements(call) ==
    IF call.op = "record_fetch"
    THEN <<[do |-> "setdefault"],
           [do |-> "load", field |-> "fetch_count"],
           [do |-> "store", field |-> "fetch_count", add |-> 1]>>
         \o (IF call.success
             THEN <<[do |-> "load", field |-> "success_count"],
                    [do |-> "store", field |-> "success_count", add |-> 1],
                    [do |-> "load", field |-> "total_posts"],
                    [do |-> "store", field |-> "total_posts", add |-> call.post_count],
                    [do |-> "load", field |-> "total_latency_ms"],
                    [do |-> "store", field |-> "total_latency_ms",
                     add |-> call.latency_ms]>>
             ELSE <<[do |-> "load", field |-> "failure_count"],
                    [do |-> "store", field |-> "failure_count", add |-> 1],
                    [do |-> "set_last_error"]>>)
         \o <<[do |-> "stamp"]>>
    ELSE IF call.op = "record_dedup"
    THEN <<[do |-> "load_dedup_count"], [do |-> "store_dedup_count"]>>
    ELSE IF call.op = "record_cycle"
    THEN <<[do |-> "load_total_cycles"], [do |-> "store_total_cycles"]>>
    ELSE <<[do |-> "snapshot"]>>

\* a lock that never makes a thread wait
acquirable_always(lock) == TRUE

\* Lock.acquire() returns when the lock is free
acquirable(lock) == lock = None

\* the calls a thread makes
MetricCalls ==
    [op : {"record_fetch"}, source : {"reddit", "twitter"}, success : BOOLEAN,
     post_count : {2}, latency_ms : {1}, error : {Some("timeout")}]
    \cup [op : {"record_dedup"}, collapsed_count : {1}]
    \cup [op : {"record_cycle", "get_metrics"}]

\* thread t calls a method of the tracker
CallTracker ==
    \E t \in (1..NumThreads) \ DOMAIN threads, call \in MetricCalls :
        /\ threads' = Put(threads, t, [call |-> call, pc |-> 0, tmp |-> 0, ret |-> None])
        /\ UNCHANGED <<metrics_lock, score_vars, smoother_vars, router_vars, api_vars>>

\* with self._lock: entered
LockTracker ==
    \E t \in DOMAIN threads :
        /\ threads[t].pc = 0
        /\ acquirable(metrics_lock)
        /\ metrics_lock' = Some(t)
        /\ threads' = [threads EXCEPT ![t].pc = 1]
        /\ UNCHANGED <<score_vars, smoother_vars, router_vars, api_vars>>

\* one statement of the method thread t is in
RunTracker ==
    \E t \in DOMAIN threads :
        LET th   == threads[t]
            call == th.call
            body == statements(call)
            m    == sources[call.source]
        IN  /\ th.pc \in 1..Len(body)
            /\ \E st \in {body[th.pc]} :
                 /\ sources' =
                       IF st.do = "setdefault"
                       THEN (IF call.source \in DOMAIN sources THEN sources
                             ELSE Put(sources, call.source, SourceMetrics))
                       ELSE IF st.do = "store"
                       THEN Put(sources, call.source,
                                [m EXCEPT ![st.field] = th.tmp + st.add])
                       ELSE IF st.do = "set_last_error"
                       THEN Put(sources, call.source, [m EXCEPT !.last_error = call.error])
                       ELSE IF st.do = "stamp"
                       THEN Put(sources, call.source,
                                [m EXCEPT !.last_fetch_time = Some(now)])
                       ELSE sources
                 /\ dedup_count' = IF st.do = "store_dedup_count"
                                   THEN th.tmp + call.collapsed_count ELSE dedup_count
                 /\ total_cycles' = IF st.do = "store_total_cycles"
                                    THEN th.tmp + 1 ELSE total_cycles
                 /\ threads' = [threads EXCEPT
                       ![t].pc  = @ + 1,
                       ![t].tmp = IF st.do = "load" THEN m[st.field]
                                  ELSE IF st.do = "load_dedup_count" THEN dedup_count
                                  ELSE IF st.do = "load_total_cycles" THEN total_cycles
                                  ELSE @,
                       ![t].ret = IF st.do = "snapshot"
                                  THEN Some(get_metrics(sources, dedup_count, total_cycles))
                                  ELSE @]
            /\ UNCHANGED <<now, mode, stream_vars, dedup_vars, last_op, metrics_lock,
                           score_vars, smoother_vars, api_vars>>

\* with self._lock: left; the method returns
UnlockTracker ==
    \E t \in DOMAIN threads :
        /\ threads[t].pc = Len(statements(threads[t].call)) + 1
        /\ metrics_lock' = None
        /\ threads' = [threads EXCEPT ![t].pc = @ + 1]
        /\ UNCHANGED <<score_vars, smoother_vars, router_vars, api_vars>>

\* the method thread t called has returned
Returned(t) == t \in DOMAIN threads /\ threads[t].pc = Len(statements(threads[t].call)) + 2

(***************************************************************************)
(* ingestion/stream_manager.py                                             *)
(***************************************************************************)
\* a fetch that keeps the cached posts when fetch_fn returns an empty list
stream_fetch_keeping(lft, ch, interval, source_name, t, outcome) ==
    LET last_time == Get(lft, source_name, 0)
        elapsed   == t - last_time
    IN  IF elapsed >= interval /\ ~outcome.raises /\ outcome.results # <<>>
        THEN [last_fetch_time |-> Put(lft, source_name, t),
              cache           |-> Put(ch, source_name, outcome.results),
              ret             |-> outcome.results,
              before          |-> Get(ch, source_name, <<>>),
              invoked         |-> 1]
        ELSE [last_fetch_time |-> lft,
              cache           |-> ch,
              ret             |-> Get(ch, source_name, <<>>),
              before          |-> Get(ch, source_name, <<>>),
              invoked         |-> IF elapsed >= interval THEN 1 ELSE 0]

\* StreamManager.fetch(source_name, fetch_fn) called when the clock reads t, where
\* outcome is what fetch_fn does if it is invoked.  ret is the list returned;
\* invoked counts the invocations of fetch_fn; before is the list cached for the
\* source when the call started.
stream_fetch(lft, ch, interval, source_name, t, outcome) ==
    LET last_time == Get(lft, source_name, 0)
        elapsed   == t - last_time
    IN  IF elapsed >= interval /\ ~outcome.raises
        THEN [last_fetch_time |-> Put(lft, source_name, t),
              cache           |-> Put(ch, source_name, outcome.results),
              ret             |-> outcome.results,
              before          |-> Get(ch, source_name, <<>>),
              invoked         |-> 1]
        ELSE [last_fetch_time |-> lft,
              cache           |-> ch,
              ret             |-> Get(ch, source_name, <<>>),
              before          |-> Get(ch, source_name, <<>>),
              invoked         |-> IF elapsed >= interval THEN 1 ELSE 0]

(***************************************************************************)
(* ingestion/source_router.py                                              *)
(***************************************************************************)
MaxClock  == 60     \* the clock stops at MaxClock seconds
MaxCycles == 3      \* get_posts() calls (fetches recorded per source)

INGESTION_MODE == "hybrid"
\* the configured modes of the model: the four of the code, one in capitals and
\* one that is unknown
Modes == {"mock", "MOCK", "rss", "twitter", "hybrid", "legacy"}
\* INGESTION_MODE.lower()
mode_lower(m) == CASE m = "MOCK" -> "mock" [] OTHER -> m

\* the names of the sources a mode fetches
EnabledSources(m) ==
    CASE m = "rss" -> {"reddit"}
      [] m = "twitter" -> {"twitter"}
      [] m = "hybrid" -> {"reddit", "twitter"}
      [] OTHER -> {"mock"}

\* str(e) of the ValueError of  posts, is_fresh = <a list of n items>
unpack_error(n) ==
    IF n > 2 THEN "too many values to unpack (expected 2)"
    ELSE IF n = 1 THEN "not enough values to unpack (expected 2, got 1)"
    ELSE "not enough values to unpack (expected 2, got 0)"

\* a _timed_fetch that takes the list fetch_fn() returned as the posts of a fresh
\* fetch and records a success
timed_fetch_of_list(srcs, source_name, call, latency_ms, wall) ==
    IF ~call.raised
    THEN [unpacked |-> FALSE,
          posts    |-> call.value,
          is_fresh |-> TRUE,
          sources  |-> record_fetch(srcs, source_name, TRUE, Len(call.value), latency_ms,
                                    None, wall)]
    ELSE [unpacked |-> FALSE,
          posts    |-> <<>>,
          is_fresh |-> TRUE,
          sources  |-> record_fetch(srcs, source_name, FALSE, 0, latency_ms,
                                    Some(call.error), wall)]

\* _timed_fetch(source_name, fetch_fn), where call is what fetch_fn() did: raised, or
\* returned the list call.value.  A list of two items unpacks into posts and is_fresh
\* (is_fresh is kept as its truth value); any other list raises ValueError, which the
\* except branch records as a failed fetch.
timed_fetch(srcs, source_name, call, latency_ms, wall) ==
    IF ~call.raised /\ Len(call.value) = 2
    THEN [unpacked |-> TRUE,
          posts    |-> call.value[1],
          is_fresh |-> Truthy(call.value[2]),
          sources  |-> record_fetch(srcs, source_name, TRUE,
                                    Cardinality(DOMAIN call.value[1]), latency_ms, None,
                                    wall)]
    ELSE [unpacked |-> FALSE,
          posts    |-> <<>>,
          is_fresh |-> TRUE,
          sources  |-> record_fetch(srcs, source_name, FALSE, 0, latency_ms,
                                    Some(IF call.raised THEN call.error
                                         ELSE unpack_error(Len(call.value))),
                                    wall)]

\* the result of a managed fetch f and of the _timed_fetch u around it
managed_result(f, u, t, outcome) ==
    [last_fetch_time |-> f.last_fetch_time,
     cache           |-> f.cache,
     sources         |-> u.sources,
     unpacked        |-> u.unpacked,
     posts           |-> u.posts,
     is_fresh        |-> u.is_fresh,
     info            |-> [at       |-> t,
                          invoked  |-> f.invoked,
                          raises   |-> f.invoked = 1 /\ outcome.raises,
                          failure  |-> f.invoked = 1 /\ ~outcome.raises /\ outcome.failure,
                          ret      |-> f.ret,
                          before   |-> f.before,
                          unpacked |-> u.unpacked,
                          is_fresh |-> u.is_fresh]]

\* _timed_fetch(name, lambda: managed_fetch(name, adapter)) at clock reading t
managed_timed_fetch(lft, ch, srcs, name, t, outcome, latency_ms) ==
    CHOOSE x \in UNION {{managed_result(f, u, t, outcome) :
                            u \in {timed_fetch(srcs, name,
                                               [raised |-> FALSE, value |-> f.ret],
                                               latency_ms, t)}} :
                         f \in {stream_fetch(lft, ch, fetch_interval, name, t, outcome)}} :
        TRUE

\* the two fetches of the hybrid branch joined: lines 83-99.  raised: the
\* concatenation raised TypeError (one operand is a post dict, not a list).
hybrid_join(r, t) ==
    [last_fetch_time |-> t.last_fetch_time, cache |-> t.cache, sources |-> t.sources,
     raised    |-> r.unpacked \/ t.unpacked,
     is_dict   |-> FALSE,
     posts     |-> IF r.unpacked \/ t.unpacked THEN <<>> ELSE r.posts \o t.posts,
     any_fresh |-> r.is_fresh \/ t.is_fresh,
     fetches   |-> Put(Put(EmptyDict, "reddit", r.info), "twitter", t.info)]

\* the single fetch of the rss and twitter branches: lines 68-76
single(name, f) ==
    [last_fetch_time |-> f.last_fetch_time, cache |-> f.cache, sources |-> f.sources,
     raised |-> FALSE, is_dict |-> f.unpacked, posts |-> f.posts,
     any_fresh |-> f.is_fresh, fetches |-> Put(EmptyDict, name, f.info)]

\* the mock fetch ends get_posts() with an exception
mock_only_raising(f, shuffled) ==
    [last_fetch_time |-> last_fetch_time, cache |-> cache, sources |-> f.sources,
     raised |-> TRUE, is_dict |-> f.unpacked, posts |-> f.posts,
     any_fresh |-> TRUE,
     fetches |-> Put(EmptyDict, "mock",
                     [at |-> now, invoked |-> 1, raises |-> TRUE, failure |-> FALSE,
                      ret |-> shuffled,
                      unpacked |-> f.unpacked, is_fresh |-> TRUE])]

\* the mock branch and the fallback of an unknown mode: lines 63-66 and 101-107
mock_only(f, shuffled) ==
    [last_fetch_time |-> last_fetch_time, cache |-> cache, sources |-> f.sources,
     raised |-> FALSE, is_dict |-> f.unpacked, posts |-> f.posts,
     any_fresh |-> TRUE,
     fetches |-> Put(EmptyDict, "mock",
                     [at |-> now, invoked |-> 1, raises |-> FALSE, failure |-> FALSE,
                      ret |-> shuffled,
                      unpacked |-> f.unpacked, is_fresh |-> TRUE])]

\* lines 58-107 of get_posts(): the set holding the one outcome of the fetches of
\* mode m.  d is the time the first fetch of the hybrid branch takes.
ingest(m, out_r, out_t, shuffled, d, latency_ms) ==
    IF m = "rss"
    THEN {single("reddit", f) :
            f \in {managed_timed_fetch(last_fetch_time, cache, sources, "reddit", now,
                                       out_r, latency_ms)}}
    ELSE IF m = "twitter"
    THEN {single("twitter", f) :
            f \in {managed_timed_fetch(last_fetch_time, cache, sources, "twitter", now,
                                       out_t, latency_ms)}}
    ELSE IF m = "hybrid"
    THEN UNION {{hybrid_join(r, t) :
                    t \in {managed_timed_fetch(r.last_fetch_time, r.cache, r.sources,
                                               "twitter", now + d, out_t, latency_ms)}} :
                 r \in {managed_timed_fetch(last_fetch_time, cache, sources, "reddit",
                                            now, out_r, latency_ms)}}
    ELSE {mock_only(f, shuffled) :
            f \in {timed_fetch(sources, "mock", [raised |-> FALSE, value |-> shuffled],
                               latency_ms, now)}}

\* lines 109-120: the deduplication of the posts fetched, when any is fresh.
\* deduplicate(posts) of a post dict iterates its keys and raises AttributeError
\* (str has no .get).
dedup_stage(g) ==
    IF g.raised \/ ~g.any_fresh \/ g.is_dict
    THEN [hash_order |-> hash_order, hash_set |-> hash_set, result |-> g.posts,
          called |-> ~g.raised /\ g.any_fresh,
          raised |-> ~g.raised /\ g.any_fresh /\ g.is_dict /\ Truthy(g.posts)]
    ELSE [called |-> TRUE, raised |-> FALSE] @@
         deduplicate(hash_order, hash_set, window_size, g.posts)

\* get_posts().  A call that raises keeps what it did before the exception: the
\* stream manager's state and the fetches recorded.
get_posts_call(out_r, out_t, shuffled, d, latency_ms) ==
    \E g \in ingest(mode_lower(mode), out_r, out_t, shuffled, d, latency_ms) :
    \E dd \in {dedup_stage(g)} :
    LET raised == g.raised \/ dd.raised
        collapsed == IF g.is_dict THEN 0 ELSE Len(g.posts) - Len(dd.result)
    IN  /\ now + d <= MaxClock
        /\ \A s \in EnabledSources(mode_lower(mode)) :
              Get(sources, s, SourceMetrics).fetch_count < MaxCycles
        /\ now' = now + d
        /\ last_fetch_time' = g.last_fetch_time
        /\ cache' = g.cache
        /\ sources' = g.sources
        /\ hash_order' = IF raised THEN hash_order ELSE dd.hash_order
        /\ hash_set' = IF raised THEN hash_set ELSE dd.hash_set
        /\ dedup_count' = IF ~raised /\ dd.called /\ collapsed > 0
                          THEN record_dedup(dedup_count, collapsed) ELSE dedup_count
        /\ total_cycles' = IF raised THEN total_cycles ELSE record_cycle(total_cycles)
        /\ last_op' = [op           |-> "get_posts",
                       mode         |-> mode_lower(mode),
                       raised       |-> raised,
                       exc          |-> IF g.raised THEN "TypeError"
                                        ELSE IF dd.raised THEN "AttributeError"
                                        ELSE "",
                       result       |-> IF raised THEN <<>> ELSE dd.result,
                       dedup_called |-> dd.called,
                       fetches      |-> g.fetches]
        /\ UNCHANGED <<mode, fetch_interval, window_size>>

\* a get_posts() call made on its own
GetPostsWith(out_r, out_t, shuffled, d, latency_ms) ==
    /\ get_posts_call(out_r, out_t, shuffled, d, latency_ms)
    /\ UNCHANGED <<score_vars, smoother_vars, api_vars, thread_vars>>

Latencies == {1, 2}

\* what the adapter of source s does when a get_posts() call of mode m reaches it at
\* clock reading t: nothing is drawn for an adapter that is not invoked
NotInvoked == [raises |-> TRUE]
Drawn(m, s, t) ==
    IF s \in EnabledSources(m) /\ t - Get(last_fetch_time, s, 0) >= fetch_interval
    THEN FetchOutcomes(s)
    ELSE {NotInvoked}

\* one get_posts() call; in hybrid mode the reddit fetch takes 0 or
\* fetch_interval / 3 seconds
GetPosts ==
    LET m == mode_lower(mode)
    IN  \E d \in IF m = "hybrid" THEN {0, fetch_interval \div 3} ELSE {0} :
        \E out_r \in Drawn(m, "reddit", now), out_t \in Drawn(m, "twitter", now + d) :
        \E shuffled \in IF "mock" \in EnabledSources(m) THEN fetch_posts ELSE {<<>>} :
        \E l \in Latencies :
            GetPostsWith(out_r, out_t, shuffled, d, l)

(***************************************************************************)
(* nlp/cleaner.py and nlp/sentiment.py                                     *)
(***************************************************************************)
IsAlpha(c) == c \in {"a", "b", "A", "B"}
IsUpper(c) == c \in {"A", "B"}

\* the items of t at the positions in keep, from position i on
RECURSIVE Pick(_, _, _)
Pick(t, keep, i) ==
    IF i > Len(t) THEN <<>>
    ELSE (IF i \in keep THEN <<t[i]>> ELSE <<>>) \o Pick(t, keep, i + 1)

\* re.sub(r"(.)\1{2,}", r"\1\1", text): a run of three or more is cut to two
collapse_repeated_chars(t) ==
    Pick(t, {i \in 1..Len(t) : ~(i >= 3 /\ t[i] = t[i - 1] /\ t[i] = t[i - 2])}, 1)

\* _normalize: text.lower().strip(), then every run of whitespace becomes one space
normalize(t) ==
    LET u == strip(lower(t))
    IN  Pick(u, {i \in 1..Len(u) : ~(IsSpace(u[i]) /\ i > 1 /\ IsSpace(u[i - 1]))}, 1)

\* clean_text.  The texts of the model hold no URL, HTML tag, emoji or run of
\* symbols, which the first four steps remove.
clean_text(t) == normalize(collapse_repeated_chars(t))

\* lines 85-86: more than five letters, all of them capitals
is_shouting(raw) ==
    LET alpha_chars == {i \in 1..Len(raw) : IsAlpha(raw[i])}
    IN  Cardinality(alpha_chars) > 5 /\ \A i \in alpha_chars : IsUpper(raw[i])

\* no post is dropped
clean_posts_keep_all(ps) ==
    [i \in 1..Len(ps) |-> Put(ps[i], "cleaned_text", clean_text(Get(ps[i], "text", <<>>)))]

RECURSIVE clean_posts(_)
clean_posts(ps) ==
    IF ps = <<>> THEN <<>>
    ELSE LET post == ps[1]
             raw  == Get(post, "text", <<>>)
             text == clean_text(raw)
         IN  IF is_shouting(raw) \/ word_count(text) < MIN_POST_WORD_COUNT
             THEN clean_posts(Tail(ps))
             ELSE <<Put(post, "cleaned_text", text)>> \o clean_posts(Tail(ps))

\* round(confidence, 4)
round4(x) == Frac(RoundScaled(x, 10000), 10000)

\* analyze(text), where the classifier answered label with score
analyze(label, score) ==
    [raw_label |-> label, confidence |-> round4(score),
     polarity_score |-> IF label = "POSITIVE" THEN 1 ELSE -1]

\* what the classifier can answer for one text
Verdicts == {analyze(label, score) : label \in {"POSITIVE", "NEGATIVE"}, score \in Confidences}

\* analyze_posts(posts), where verdicts[i] is the sentiment found for the i-th post
analyze_posts(ps, verdicts) == [i \in 1..Len(ps) |-> Put(ps[i], "sentiment", verdicts[i])]

\* one statement of smooth(raw_score) run by thread t, which goes on at `after`
\* when the call returns: smoothing.py lines 32, 33-37, 38, 39
smooth_statement(t, raw_score, after) ==
    LET th == threads[t]
    IN  \/ /\ th.pc = "enter"
           /\ threads' = [threads EXCEPT ![t].pc = "blend",
                                         ![t].is_none = (previous_score = None)]
           /\ UNCHANGED smoother_vars
        \/ /\ th.pc = "blend"
           /\ threads' = [threads EXCEPT
                 ![t].pc = "store",
                 ![t].smoothed =
                     IF th.is_none THEN round2(raw_score)
                     ELSE round2(ema(alpha, raw_score, OfHundredths(previous_score[1])))]
           /\ UNCHANGED smoother_vars
        \/ /\ th.pc = "store"
           /\ previous_score' = Some(th.smoothed)
           /\ threads' = [threads EXCEPT ![t].pc = "append"]
           /\ UNCHANGED <<alpha, history, smoothed, smooth_arg, other_smoother>>
        \/ /\ th.pc = "append"
           /\ history' = Append(history, th.smoothed)
           /\ smoothed' = Some(th.smoothed)
           /\ smooth_arg' = Some(raw_score)
           /\ threads' = [threads EXCEPT ![t].pc = after]
           /\ UNCHANGED <<alpha, previous_score, other_smoother>>

(***************************************************************************)
(* main.py: the /oracle handler                                            *)
(***************************************************************************)
\* a handler that caches and returns the response it built whatever its post count
cache_every_response(built, post_count, cached) == [cached |-> Some(built), body |-> built]

\* lines 118-126 of run_pipeline(): the value of _last_oracle_response after the
\* request (cached) and the response returned (body)
cache_or_fallback(built, post_count, cached) ==
    IF post_count > 0 THEN [cached |-> Some(built), body |-> built]
    ELSE IF cached # None THEN [cached |-> cached, body |-> cached[1]]
    ELSE [cached |-> cached, body |-> built]

\* lines 86-126 of run_pipeline(), after the get_posts() call of this step.  A call
\* that raised ends the request with an error; otherwise the posts returned are
\* aggregated, cleaned, analyzed, scored and smoothed, and the response is cached
\* when it counts at least one post.
oracle_pipeline ==
    IF last_op'.raised
    THEN /\ response' = Some([status |-> "error", error |-> last_op'.exc])
         /\ UNCHANGED <<score_vars, smoother_vars, last_oracle_response>>
    ELSE \E cleaned \in {clean_posts(aggregate(last_op'.result, MAX_POSTS))} :
         \E verdicts \in [1..Len(cleaned) -> Verdicts] :
         \E analyzed \in {analyze_posts(cleaned, verdicts)} :
         \E score_result \in {compute(analyzed)} :
         \E s \in {smooth_value(alpha, previous_score, OfHundredths(score_result.raw_score))} :
            LET built == [raw_score              |-> score_result.raw_score,
                          smoothed_score         |-> s,
                          post_count             |-> score_result.post_count,
                          positive_count         |-> score_result.positive_count,
                          negative_count         |-> score_result.negative_count,
                          last_updated_timestamp |-> now']
            IN  /\ posts' = analyzed
                /\ snapshot' = Some(score_result)
                /\ previous_score' = Some(s)
                /\ history' = Append(history, s)
                /\ smoothed' = Some(s)
                /\ smooth_arg' = Some(OfHundredths(score_result.raw_score))
                /\ alpha' = alpha
                /\ other_smoother' = other_smoother
                /\ \E out \in {cache_or_fallback(built, score_result.post_count,
                                                  last_oracle_response)} :
                      /\ last_oracle_response' = out.cached
                      /\ response' = Some([status |-> "ok", body |-> out.body])

\* one GET /oracle request of a serving process
MaxServed == 2      \* /oracle requests that are scored, and fetches of a source by them
Oracle ==
    LET m == mode_lower(mode)
    IN  /\ last_op.op # "off"
        /\ Len(history) < MaxServed
        /\ \A s \in EnabledSources(m) :
              Get(sources, s, SourceMetrics).fetch_count < MaxServed
        /\ \E d \in IF m = "hybrid" THEN {0, fetch_interval \div 3} ELSE {0} :
           \E out_r \in Drawn(m, "reddit", now), out_t \in Drawn(m, "twitter", now + d) :
           \E shuffled \in IF "mock" \in EnabledSources(m) THEN fetch_posts ELSE {<<>>} :
           \E l \in Latencies :
                /\ get_posts_call(out_r, out_t, shuffled, d, l)
                /\ oracle_pipeline
                /\ UNCHANGED <<last_sentiment_response, model_instance, twitter_vars, thread_vars>>

\* one GET /oracle request in which get_posts() (line 83) returns raw_posts
OracleGiven(raw_posts) ==
    /\ last_op.op = "serve"
    /\ Len(history) < MaxHistory
    /\ now' = now + 1
    /\ last_op' = [op |-> "serve", raised |-> FALSE, result |-> raw_posts]
    /\ oracle_pipeline
    /\ UNCHANGED <<mode, stream_vars, dedup_vars, metrics_vars, last_sentiment_response,
                   model_instance, twitter_vars, thread_vars>>

\* the posts of the /sentiment response: lines 163-174 (the keys label, confidence
\* and polarity_score are read from the post itself)
SENTIMENT_POSTS == 20
formatted_posts(analyzed) ==
    [i \in 1..(IF Len(analyzed) < SENTIMENT_POSTS THEN Len(analyzed) ELSE SENTIMENT_POSTS) |->
        [id         |-> Get(analyzed[i], "id", ""),
         text       |-> Get(analyzed[i], "text", ""),
         engagement |-> Get(analyzed[i], "engagement", 0),
         sentiment  |-> [raw_label      |-> Get(analyzed[i], "label", "UNKNOWN"),
                         confidence     |-> Get(analyzed[i], "confidence", FInt(0)),
                         polarity_score |-> Get(analyzed[i], "polarity_score", 0)]]]

\* the response a handler builds: lines 109-116 of run_pipeline(), 177-182 of
\* get_sentiment()
build_response(endpoint, score_result, smoothed_score, analyzed, t) ==
    IF endpoint = "/oracle"
    THEN [raw_score              |-> score_result.raw_score,
          smoothed_score         |-> smoothed_score,
          post_count             |-> score_result.post_count,
          positive_count         |-> score_result.positive_count,
          negative_count         |-> score_result.negative_count,
          last_updated_timestamp |-> t]
    ELSE [community_vibe_score |-> smoothed_score,
          raw_score            |-> score_result.raw_score,
          sample_size          |-> score_result.post_count,
          posts                |-> formatted_posts(analyzed)]

\* the handlers run by the threads of the server's pool, one stage at a time
NumRequests == 2    \* requests in flight
Endpoints == {"/oracle", "/sentiment"}
Handlers == {t \in DOMAIN threads : threads[t].call.op \in Endpoints}

\* a request arrives and a thread of the pool enters its handler
Request ==
    \E t \in (1..NumRequests) \ DOMAIN threads, endpoint \in Endpoints :
        /\ last_op.op # "off"
        /\ threads' = Put(threads, t, [call |-> [op |-> endpoint], pc |-> "get_posts",
                                        raw_posts |-> <<>>, analyzed |-> <<>>,
                                        score_result |-> None, is_none |-> FALSE,
                                        smoothed |-> 0, answer |-> None])
        /\ UNCHANGED <<metrics_lock, score_vars, smoother_vars, router_vars, api_vars>>

\* raw_posts = get_posts(): main.py lines 83 and 147.  An exception ends the request.
HandlerGetPosts ==
    \E t \in Handlers :
        LET m == mode_lower(mode)
        IN  /\ threads[t].pc = "get_posts"
            /\ \E d \in IF m = "hybrid" THEN {0, fetch_interval \div 3} ELSE {0} :
               \E out_r \in Drawn(m, "reddit", now), out_t \in Drawn(m, "twitter", now + d) :
               \E shuffled \in IF "mock" \in EnabledSources(m) THEN fetch_posts ELSE {<<>>} :
               \E l \in Latencies :
                    get_posts_call(out_r, out_t, shuffled, d, l)
            /\ \E answer \in {IF last_op'.raised
                                THEN Some([status |-> "error", error |-> last_op'.exc])
                                ELSE None} :
                /\ threads' = [threads EXCEPT
                                  ![t].pc = IF last_op'.raised THEN "return" ELSE "score",
                                  ![t].raw_posts = last_op'.result,
                                  ![t].answer = answer]
                /\ response' = IF last_op'.raised THEN answer ELSE response
            /\ UNCHANGED <<metrics_lock, score_vars, smoother_vars, last_oracle_response,
                           last_sentiment_response, model_instance, twitter_vars>>

\* aggregate, clean_posts, analyze_posts, compute: lines 87-98 and 150-159
HandlerScore ==
    \E t \in Handlers :
        /\ threads[t].pc = "score"
        /\ \E cleaned \in {clean_posts(aggregate(threads[t].raw_posts, MAX_POSTS))} :
           \E verdicts \in [1..Len(cleaned) -> Verdicts] :
           \E analyzed \in {analyze_posts(cleaned, verdicts)} :
           \E score_result \in {compute(analyzed)} :
                /\ posts' = analyzed
                /\ snapshot' = Some(score_result)
                /\ threads' = [threads EXCEPT ![t].pc = "enter",
                                              ![t].analyzed = analyzed,
                                              ![t].score_result = Some(score_result)]
        /\ UNCHANGED <<metrics_lock, smoother_vars, router_vars, api_vars>>

\* smooth(score_result["raw_score"]): lines 105 and 160
HandlerSmooth ==
    \E t \in Handlers :
        /\ threads[t].pc \in {"enter", "blend", "store", "append"}
        /\ smooth_statement(t, OfHundredths(threads[t].score_result[1].raw_score), "respond")
        /\ UNCHANGED <<metrics_lock, score_vars, router_vars, api_vars>>

\* the response is built, then cached or replaced by the cached one: lines 109-126
\* and 163-195
HandlerRespond ==
    \E t \in Handlers :
        LET th    == threads[t]
            built == build_response(th.call.op, th.score_result[1], th.smoothed,
                                    th.analyzed, now)
            cached == IF th.call.op = "/oracle" THEN last_oracle_response
                      ELSE last_sentiment_response
            fresh == IF th.call.op = "/oracle" THEN th.score_result[1].post_count > 0
                     ELSE Truthy(built.posts)
            body  == IF fresh \/ cached = None THEN built ELSE cached[1]
            answer == Some([status |-> "ok", body |-> body])
        IN  /\ th.pc = "respond"
            /\ last_oracle_response' =
                    IF th.call.op = "/oracle" /\ fresh THEN Some(built)
                    ELSE last_oracle_response
            /\ last_sentiment_response' =
                    IF th.call.op = "/sentiment" /\ fresh THEN Some(built)
                    ELSE last_sentiment_response
            /\ response' = answer
            /\ threads' = [threads EXCEPT ![t].pc = "return", ![t].answer = answer]
            /\ UNCHANGED <<metrics_lock, score_vars, smoother_vars, router_vars,
                           model_instance, twitter_vars>>

\* the source is counted as degraded: health.py lines 74-75, on the snapshot of
\* get_metrics() (success_rate_percent in hundredths)
source_degraded(source_metrics) ==
    /\ Get(source_metrics, "success_rate_percent", 0) < DEGRADED_BELOW_PERCENT * 100
    /\ Get(source_metrics, "fetch_count", 0) > 0

\* get_health_status() at clock reading t.  get_model() returns the instance loaded
\* or loads one, which succeeds (loads) or raises; has_history(), get_last_score()
\* and get_metrics() raise nothing.
get_health_status(instance, loads, prev, hist, srcs, dedup, cycles, t) ==
    LET nlp_ok  == instance # None \/ loads
        metrics == get_metrics(srcs, dedup, cycles)
        ingestion_status ==
            IF \E name \in DOMAIN metrics.sources : source_degraded(metrics.sources[name])
            THEN "degraded" ELSE "ok"
    IN  [status     |-> IF ~nlp_ok \/ ingestion_status # "ok" THEN "degraded" ELSE "healthy",
         components |->
            [nlp_model |-> IF nlp_ok THEN [status |-> "ok", loaded |-> TRUE]
                           ELSE [status |-> "error", loaded |-> FALSE, error |-> "load"],
             smoothing |-> [status |-> "ok", has_history |-> Len(hist) > 0,
                            last_score |-> prev],
             ingestion |-> [status |-> ingestion_status, total_cycles |-> metrics.total_cycles,
                            sources |-> metrics.sources]],
         last_score |-> prev,
         last_update_timestamp |-> Some(t)]

\* one GET /health request: main.py lines 198-209
GetHealth ==
    \E loads \in BOOLEAN :
        /\ response' = Some([status |-> "ok",
                             body |-> get_health_status(model_instance, loads, previous_score,
                                                        history, sources, dedup_count,
                                                        total_cycles, now)])
        /\ model_instance' = IF model_instance = None /\ loads THEN Some("pipeline")
                             ELSE model_instance
        /\ last_op' = [op |-> "health"]
        /\ UNCHANGED <<now, mode, stream_vars, dedup_vars, metrics_vars, score_vars,
                       smoother_vars, last_oracle_response, last_sentiment_response,
                       twitter_vars, thread_vars>>

\* time passes between two calls
Tick ==
    \E d \in {fetch_interval \div 3, fetch_interval} :
        /\ now + d <= MaxClock
        /\ now' = now + d
        /\ last_op' = [op |-> "tick"]
        /\ UNCHANGED <<mode, stream_vars, dedup_vars, metrics_vars, score_vars,
                       smoother_vars, api_vars, thread_vars>>

\* time passes between two requests of a serving process
Elapse == last_op.op # "off" /\ Tick

\* the module-level singletons of a process that starts when the clock reads now
RouterInit ==
    /\ now \in {t \in 0..MaxClock : t % (RSS_FETCH_INTERVAL \div 3) = 0}
    /\ mode \in Modes
    /\ fetch_interval = RSS_FETCH_INTERVAL
    /\ last_fetch_time = EmptyDict
    /\ cache = EmptyDict
    /\ window_size = DEDUP_WINDOW_SIZE
    /\ hash_order = <<>>
    /\ hash_set = {}
    /\ sources = EmptyDict
    /\ dedup_count = 0
    /\ total_cycles = 0
    /\ last_op = [op |-> "start"]

RouterIdle ==
    /\ now = 0
    /\ mode = INGESTION_MODE
    /\ fetch_interval = RSS_FETCH_INTERVAL
    /\ last_fetch_time = EmptyDict
    /\ cache = EmptyDict
    /\ window_size = DEDUP_WINDOW_SIZE
    /\ hash_order = <<>>
    /\ hash_set = {}
    /\ sources = EmptyDict
    /\ dedup_count = 0
    /\ total_cycles = 0
    /\ last_op = [op |-> "start"]

\* a RollingDeduplicator(window_size) just constructed
DedupInit ==
    /\ now = 0
    /\ mode = INGESTION_MODE
    /\ fetch_interval = RSS_FETCH_INTERVAL
    /\ last_fetch_time = EmptyDict
    /\ cache = EmptyDict
    /\ window_size \in 1..MaxWindow
    /\ hash_order = <<>>
    /\ hash_set = {}
    /\ sources = EmptyDict
    /\ dedup_count = 0
    /\ total_cycles = 0
    /\ last_op = [op |-> "start", admitted |-> {}, readmitted |-> {}, recent |-> <<>>]

(***************************************************************************)
(* ingestion/twitter_dataset.py                                            *)
(***************************************************************************)
TWITTER_SAMPLE_SIZE == 50

\* df.iloc[a:b]: the rows at the positions a .. b - 1 (counted from 0) that exist
iloc(rows, a, b) == SubSeq(rows, a + 1, IF b < Len(rows) THEN b ELSE Len(rows))

\* the pointer left where the window ended
wrap_pointer_never(index, dataset_size) == index

\* lines 96-97: the pointer wraps at the end of the dataset
wrap_pointer(index, dataset_size) == IF index >= dataset_size THEN 0 ELSE index

\* lines 75-97 of fetch_twitter_posts(): the rows sampled and the pointer left
rolling_sample(rows, index) ==
    LET dataset_size == Len(rows)
        sample_size  == IF TWITTER_SAMPLE_SIZE < dataset_size THEN TWITTER_SAMPLE_SIZE
                        ELSE dataset_size
        end_index    == index + sample_size
        first_part   == iloc(rows, index, dataset_size)
        remaining    == sample_size - Len(first_part)
    IN  IF end_index <= dataset_size
        THEN [sample |-> iloc(rows, index, end_index),
              rolling_index |-> wrap_pointer(end_index, dataset_size)]
        ELSE [sample |-> first_part \o iloc(rows, 0, remaining),
              rolling_index |-> wrap_pointer(remaining, dataset_size)]

\* lines 101-113: the post made of row idx, with the engagement drawn for it
twitter_post(idx, engagement, t) ==
    [id |-> <<"twitter", idx>>, text |-> <<"tweet", idx>>, engagement |-> engagement,
     timestamp |-> t, author |-> None, source |-> "twitter"]

\* the rows of a CSV file of the given size after dropna: the rows keep the labels
\* they had in the file, where `dropped` rows before the second one had no text
CsvRows(size, dropped) == [i \in 1..size |-> IF i = 1 THEN 0 ELSE i - 1 + dropped]

\* fetch_twitter_posts(): the dataset is loaded by the first call (lines 50-55);
\* the engagements drawn by random.randint(5, 25) are lo and 30 - lo in turn
FetchTwitterPosts ==
    \E lo \in {5, 25} :
    \E df \in {IF dataset = None THEN last_op.csv ELSE dataset[1]} :
    \E r \in {rolling_sample(df, rolling_index)} :
        /\ last_op.op = "twitter"
        /\ dataset' = Some(df)
        /\ rolling_index' = r.rolling_index
        /\ last_op' = [op |-> "twitter", csv |-> last_op.csv, called |-> TRUE,
                       posts |-> [i \in 1..Len(r.sample) |->
                                    twitter_post(r.sample[i],
                                                 IF i % 2 = 1 THEN lo ELSE 30 - lo, now)]]
        /\ UNCHANGED <<now, mode, stream_vars, dedup_vars, metrics_vars, score_vars,
                       smoother_vars, last_oracle_response, last_sentiment_response,
                       response, model_instance, thread_vars>>

\* the sizes of the CSV file
DatasetSizes == {1, 2, 49, 50, 51, 75, 101}
TwitterInit ==
    /\ now = 0
    /\ mode = INGESTION_MODE
    /\ fetch_interval = RSS_FETCH_INTERVAL
    /\ last_fetch_time = EmptyDict
    /\ cache = EmptyDict
    /\ window_size = DEDUP_WINDOW_SIZE
    /\ hash_order = <<>>
    /\ hash_set = {}
    /\ sources = EmptyDict
    /\ dedup_count = 0
    /\ total_cycles = 0
    /\ \E size \in DatasetSizes, dropped \in {0, 1} :
          last_op = [op |-> "twitter", csv |-> CsvRows(size, dropped), called |-> FALSE,
                     posts |-> <<>>]

(***************************************************************************)
(* Specifications                                                          *)
(***************************************************************************)
ScoreInit ==
    /\ posts \in SeqsUpTo(AnalyzedPosts, MaxPosts)
    /\ snapshot = None

ScoreIdle ==
    /\ posts = <<>>
    /\ snapshot = None

\* compute(posts)
Compute ==
    /\ snapshot = None
    /\ snapshot' = Some(compute(posts))
    /\ UNCHANGED <<posts, smoother_vars, router_vars, api_vars, thread_vars>>

\* no thread started
ThreadsIdle ==
    /\ threads = <<>>
    /\ metrics_lock = None

\* no request served yet
ApiIdle ==
    /\ last_oracle_response = None
    /\ last_sentiment_response = None
    /\ model_instance = Some("pipeline")
    /\ response = None
    /\ dataset = None
    /\ rolling_index = 0

\* the scoring engine applied to posts whose weights are far apart or nearly equal
MaxSignPosts == 3       \* longest list whose score is compared with its weights
SignEngagements == {0, 1, 20000, 20001}
SignPosts ==
    [sentiment : [confidence : {Frac(1, 10), FInt(1)}, polarity_score : Polarities],
     engagement : SignEngagements]
SignInit ==
    /\ posts \in SeqsUpTo(SignPosts, MaxSignPosts)
    /\ snapshot = None
InitSign == SignInit /\ SmoothIdle /\ RouterIdle /\ ApiIdle /\ ThreadsIdle
SpecSign == InitSign /\ [][Compute]_vars

\* the scoring engine applied to every bounded input
InitScore == ScoreInit /\ SmoothIdle /\ RouterIdle /\ ApiIdle /\ ThreadsIdle
SpecScore == InitScore /\ [][Compute]_vars

\* compute() called on lists of three posts, and called again on the same posts in
\* another order
MaxOrderPosts == 3      \* longest list whose orders are compared

OrderEngagements == {19, 22, 23}
OrderPosts ==
    [sentiment : [confidence : {Frac(1, 10)}, polarity_score : Polarities],
     engagement : OrderEngagements]

\* the orders of n items
Orders(n) == {p \in [1..n -> 1..n] : \A i, j \in 1..n : p[i] = p[j] => i = j}

Recompute ==
    /\ snapshot # None
    /\ \E p \in Orders(Len(posts)) :
          \E reordered \in {[i \in 1..Len(posts) |-> posts[p[i]]]} :
              /\ posts' = reordered
              /\ snapshot' = Some(compute(reordered))
    /\ UNCHANGED <<smoother_vars, router_vars, api_vars, thread_vars>>

OrderInit ==
    /\ posts \in SeqsUpTo(OrderPosts, MaxOrderPosts)
    /\ snapshot = None

InitOrder == OrderInit /\ SmoothIdle /\ RouterIdle /\ ApiIdle /\ ThreadsIdle
OrderNext == Compute \/ Recompute
SpecOrder == InitOrder /\ [][OrderNext]_vars

\* one Smoother instance of any alpha under any bounded input sequence
SmoothNext == \E r \in RawInputs : Smooth(r)
InitSmooth == ScoreIdle /\ SmoothInit /\ RouterIdle /\ ApiIdle /\ ThreadsIdle
SpecSmooth == InitSmooth /\ [][SmoothNext]_vars

\* the source router of one process under every behaviour of its adapters
\* the metrics tracker called directly: each call is made one second after the
\* call before it
MaxRecords == 3     \* record_fetch() calls
MaxGlobal  == 1     \* largest value of the counters of record_dedup() and record_cycle()

MetricSources == {"reddit", "twitter"}
PostCounts    == {2}
FetchErrors   == {None, Some("timeout")}

RecordFetch ==
    \E source \in MetricSources, success \in BOOLEAN, post_count \in PostCounts,
       latency_ms \in Latencies, error \in FetchErrors :
        /\ now < MaxRecords
        /\ now' = now + 1
        /\ sources' = record_fetch(sources, source, success, post_count, latency_ms,
                                   error, now')
        /\ last_op' = [op |-> "record_fetch", source |-> source, success |-> success,
                       post_count |-> post_count, latency_ms |-> latency_ms,
                       error |-> error]
        /\ UNCHANGED <<mode, stream_vars, dedup_vars, dedup_count, total_cycles,
                       score_vars, smoother_vars, api_vars, thread_vars>>

RecordDedup ==
    \E collapsed_count \in 1..MaxGlobal :
        /\ dedup_count + collapsed_count <= MaxGlobal
        /\ dedup_count' = record_dedup(dedup_count, collapsed_count)
        /\ last_op' = [op |-> "record_dedup", collapsed_count |-> collapsed_count]
        /\ UNCHANGED <<now, mode, stream_vars, dedup_vars, sources, total_cycles,
                       score_vars, smoother_vars, api_vars, thread_vars>>

RecordCycle ==
    /\ total_cycles < MaxGlobal
    /\ total_cycles' = record_cycle(total_cycles)
    /\ last_op' = [op |-> "record_cycle"]
    /\ UNCHANGED <<now, mode, stream_vars, dedup_vars, sources, dedup_count,
                   score_vars, smoother_vars, api_vars, thread_vars>>

InitMetrics == ScoreIdle /\ SmoothIdle /\ RouterIdle /\ ApiIdle /\ ThreadsIdle
MetricsNext == RecordFetch \/ RecordDedup \/ RecordCycle
SpecMetrics == InitMetrics /\ [][MetricsNext]_vars

\* Smoother.smooth and RollingDeduplicator.deduplicate called from several threads,
\* one statement at a time: neither method takes a lock
NumCallers == 2     \* threads that call the smoother or the deduplicator

ComponentCalls ==
    [op : {"smooth"}, raw_score : {FInt(50), FInt(100)}]
    \cup [op : {"deduplicate"},
          posts : {<<RawPost("reddit", 1)>>, <<RawPost("reddit", 2), RawPost("reddit", 3)>>}]

\* thread t calls smooth(raw_score) or deduplicate(posts)
CallComponent ==
    \E t \in (1..NumCallers) \ DOMAIN threads, call \in ComponentCalls :
        /\ threads' = Put(threads, t, [call |-> call, pc |-> "enter", is_none |-> FALSE,
                                        smoothed |-> 0, i |-> 1, result |-> <<>>])
        /\ UNCHANGED <<metrics_lock, score_vars, smoother_vars, router_vars, api_vars>>

\* a thread inside smooth() runs its next statement
SmoothStatement ==
    \E t \in DOMAIN threads :
        /\ threads[t].call.op = "smooth"
        /\ smooth_statement(t, threads[t].call.raw_score, "return")
        /\ UNCHANGED <<metrics_lock, score_vars, router_vars, api_vars>>

\* one statement of deduplicate(): deduplicator.py lines 54, 56-66, 69, 70, 71, 73
DedupStatement ==
    \E t \in DOMAIN threads :
        LET th   == threads[t]
            text == Get(th.call.posts[th.i], "text", <<>>)
        IN  /\ th.call.op = "deduplicate"
            /\ \/ /\ th.pc = "enter"
                  /\ threads' = [threads EXCEPT ![t].pc = "loop"]
                  /\ UNCHANGED <<hash_order, hash_set>>
               \/ /\ th.pc = "loop"
                  /\ threads' =
                        IF th.i > Len(th.call.posts)
                        THEN [threads EXCEPT ![t].pc = "evict"]
                        ELSE IF word_count(text) < MIN_POST_WORD_COUNT
                                \/ compute_hash(text) \in hash_set
                        THEN [threads EXCEPT ![t].i = @ + 1]
                        ELSE [threads EXCEPT ![t].pc = "append"]
                  /\ UNCHANGED <<hash_order, hash_set>>
               \/ /\ th.pc = "append"
                  /\ hash_order' = Append(hash_order, compute_hash(text))
                  /\ threads' = [threads EXCEPT ![t].pc = "add"]
                  /\ UNCHANGED hash_set
               \/ /\ th.pc = "add"
                  /\ hash_set' = hash_set \cup {compute_hash(text)}
                  /\ threads' = [threads EXCEPT ![t].pc = "keep"]
                  /\ UNCHANGED hash_order
               \/ /\ th.pc = "keep"
                  /\ threads' = [threads EXCEPT ![t].pc = "loop", ![t].i = @ + 1,
                                                ![t].result = Append(@, th.call.posts[th.i])]
                  /\ UNCHANGED <<hash_order, hash_set>>
               \/ /\ th.pc = "evict"
                  /\ \E e \in {evict_oldest(hash_order, hash_set, window_size)} :
                        /\ hash_order' = e.hash_order
                        /\ hash_set' = e.hash_set
                  /\ threads' = [threads EXCEPT ![t].pc = "return"]
            /\ UNCHANGED <<window_size, now, mode, stream_vars, metrics_vars, last_op,
                           metrics_lock, score_vars, smoother_vars, api_vars>>

RaceNext == CallComponent \/ SmoothStatement \/ DedupStatement
SpecRace == InitMetrics /\ [][RaceNext]_vars

\* the stages that follow get_posts() (main.py lines 87-105), applied to a list of
\* raw posts: a text that is kept, one of four words, one of two words, one in
\* capitals
MaxPipelineLen == 2     \* longest list of raw posts run through the stages
PipelineTexts == {Words("a", 5), Words("a", 4), Words("b", 2), Words("A", 6)}
PipelinePosts ==
    {[text |-> t, engagement |-> e, timestamp |-> "t", author |-> "a"] :
        t \in PipelineTexts, e \in {1, MaxEngagement}}

\* aggregate, clean_posts, analyze_posts, compute and smooth of the list in posts;
\* snapshot tells the analyzed posts and the score
RunPipeline ==
    /\ last_op.op = "pipeline"
    /\ snapshot = None
    /\ \E cleaned \in {clean_posts(aggregate(posts, MAX_POSTS))} :
       \E verdicts \in [1..Len(cleaned) -> Verdicts] :
       \E analyzed \in {analyze_posts(cleaned, verdicts)} :
       \E score_result \in {compute(analyzed)} :
       \E s \in {smooth_value(alpha, previous_score, OfHundredths(score_result.raw_score))} :
            /\ snapshot' = Some([op |-> "pipeline", analyzed |-> analyzed,
                                 scored |-> score_result])
            /\ previous_score' = Some(s)
            /\ history' = Append(history, s)
            /\ smoothed' = Some(s)
            /\ smooth_arg' = Some(OfHundredths(score_result.raw_score))
    /\ UNCHANGED <<posts, alpha, other_smoother, router_vars, api_vars, thread_vars>>

\* compute() called on its own
ComputeAlone == last_op.op = "off" /\ Compute

PipelineInit ==
    /\ posts \in SeqsUpTo(PipelinePosts, MaxPipelineLen)
    /\ snapshot = None
    /\ now = 0
    /\ mode = INGESTION_MODE
    /\ fetch_interval = RSS_FETCH_INTERVAL
    /\ last_fetch_time = EmptyDict
    /\ cache = EmptyDict
    /\ window_size = DEDUP_WINDOW_SIZE
    /\ hash_order = <<>>
    /\ hash_set = {}
    /\ sources = EmptyDict
    /\ dedup_count = 0
    /\ total_cycles = 0
    /\ last_op = [op |-> "pipeline"]

\* a serving process whose requests overlap, in every ingestion mode
InitHandlers == ScoreIdle /\ SmoothIdle /\ RouterInit /\ now = 0 /\ ApiIdle /\ ThreadsIdle
HandlersNext ==
    Request \/ HandlerGetPosts \/ HandlerScore \/ HandlerSmooth \/ HandlerRespond
SpecHandlers == InitHandlers /\ [][HandlersNext]_vars

TrackerNext == CallTracker \/ LockTracker \/ RunTracker \/ UnlockTracker
SpecTracker == InitMetrics /\ [][TrackerNext]_vars

InitRouter == ScoreIdle /\ SmoothIdle /\ RouterInit /\ ApiIdle /\ ThreadsIdle
RouterNext == GetPosts \/ Tick
SpecRouter == InitRouter /\ [][RouterNext]_vars

\* one rolling deduplicator of any small window under every sequence of batches
InitDedup == ScoreIdle /\ SmoothIdle /\ DedupInit /\ ApiIdle /\ ThreadsIdle
SpecDedup == InitDedup /\ [][Deduplicate]_vars

\* the aggregator applied to every bounded input under every small MAX_POSTS
InitAgg == AggInit /\ SmoothIdle /\ RouterIdle /\ ApiIdle /\ ThreadsIdle
SpecAgg == InitAgg /\ [][Aggregate]_vars

\* the router's singletons in a run that only calls the scoring engine
RouterOff ==
    /\ now = 0
    /\ mode = INGESTION_MODE
    /\ fetch_interval = RSS_FETCH_INTERVAL
    /\ last_fetch_time = EmptyDict
    /\ cache = EmptyDict
    /\ window_size = DEDUP_WINDOW_SIZE
    /\ hash_order = <<>>
    /\ hash_set = {}
    /\ sources = EmptyDict
    /\ dedup_count = 0
    /\ total_cycles = 0
    /\ last_op = [op |-> "off"]

\* the scoring engine called on its own with any bounded input, or a process that
\* serves /oracle requests under every behaviour of its adapters
InitOracle ==
    \/ ScoreInit /\ SmoothIdle /\ RouterOff /\ ApiIdle /\ ThreadsIdle
    \/ ScoreIdle /\ SmoothIdle /\ RouterInit /\ ApiIdle /\ ThreadsIdle
OracleNext == Compute \/ Oracle \/ Elapse
SpecOracle == InitOracle /\ [][OracleNext]_vars

\* a serving process observed after some fetches: each source has no record, or a
\* record of fetch_count fetches of which success_count succeeded
HealthCounts == {<<1, 0>>, <<2, 1>>, <<10001, 5000>>, <<10001, 5001>>}
Recorded(c) ==
    [fetch_count |-> c[1], success_count |-> c[2], failure_count |-> c[1] - c[2],
     total_posts |-> 2 * c[2], total_latency_ms |-> c[2],
     last_fetch_time |-> Some(0), last_error |-> IF c[1] > c[2] THEN Some("timeout") ELSE None]
Trackers ==
    UNION {[S -> {Recorded(c) : c \in HealthCounts}] : S \in SUBSET MetricSources}

HealthInit ==
    /\ now = MaxRecords - 1
    /\ mode = INGESTION_MODE
    /\ fetch_interval = RSS_FETCH_INTERVAL
    /\ last_fetch_time = EmptyDict
    /\ cache = EmptyDict
    /\ window_size = DEDUP_WINDOW_SIZE
    /\ hash_order = <<>>
    /\ hash_set = {}
    /\ sources \in Trackers
    /\ dedup_count = 0
    /\ total_cycles = 0
    /\ last_op = [op |-> "start"]

InitHealth == ScoreIdle /\ SmoothIdle /\ HealthInit /\ ApiIdle /\ ThreadsIdle
\* the first smooth() call of the process
FirstSmooth == history = <<>> /\ Smooth(FInt(50))
HealthNext == RecordFetch \/ FirstSmooth \/ GetHealth
SpecHealth == InitHealth /\ [][HealthNext]_vars

\* two Smoother instances of the default alpha, called in any order
InstanceInputs == {FInt(50), FInt(100), Frac(12345, 1000)}
InstancesNext == \E r \in InstanceInputs : Smooth(r) \/ SmoothOther(r)
SpecInstances == InitMetrics /\ [][InstancesNext]_vars

\* one Smoother fed the same raw value again and again.  It starts unseeded or
\* seeded by one earlier call; last_op tells the value fed (v) and whether the
\* first call fed seeds the smoother.
MaxSustain == 150   \* smooth() calls with the sustained value
SustainAlphas == {Frac(1, 1000), Frac(1, 20), EMA_ALPHA, FInt(1)}
SustainValues == {FInt(100), FInt(-100), Frac(12345, 1000)}
SustainStarts == {None, Some(MIN_SCORE * 100), Some(9600), Some(MAX_SCORE * 100)}

Sustain ==
    /\ last_op.op = "sustain"
    /\ Len(history) < MaxSustain
    /\ LET s == smooth_value(alpha, previous_score, last_op.v)
       IN  /\ previous_score' = Some(s)
           /\ history' = history_append(history, s)
           /\ smoothed' = Some(s)
    /\ smooth_arg' = Some(last_op.v)
    /\ UNCHANGED <<alpha, other_smoother, score_vars, router_vars, api_vars, thread_vars>>

SustainInit ==
    /\ alpha \in SustainAlphas
    /\ previous_score \in SustainStarts
    /\ history = IF previous_score = None THEN <<>> ELSE <<previous_score[1]>>
    /\ smoothed = previous_score
    /\ smooth_arg = IF previous_score = None THEN None
                    ELSE Some(OfHundredths(previous_score[1]))
    /\ other_smoother = Smoother(EMA_ALPHA)
    /\ now = 0
    /\ mode = INGESTION_MODE
    /\ fetch_interval = RSS_FETCH_INTERVAL
    /\ last_fetch_time = EmptyDict
    /\ cache = EmptyDict
    /\ window_size = DEDUP_WINDOW_SIZE
    /\ hash_order = <<>>
    /\ hash_set = {}
    /\ sources = EmptyDict
    /\ dedup_count = 0
    /\ total_cycles = 0
    /\ \E v \in SustainValues :
          last_op = [op |-> "sustain", v |-> v, seeded |-> previous_score = None]

\* a smooth() call of the sustained value whatever it returns, a number of
\* hundredths between the bounds.  It can be made exactly when Sustain can, and
\* every Sustain step is one.
SustainCall ==
    /\ last_op.op = "sustain"
    /\ Len(history) < MaxSustain
    /\ \E s \in (MIN_SCORE * 100)..(MAX_SCORE * 100) :
          /\ previous_score' = Some(s)
          /\ history' = history_append(history, s)
          /\ smoothed' = Some(s)
    /\ smooth_arg' = Some(last_op.v)
    /\ UNCHANGED <<alpha, other_smoother, score_vars, router_vars, api_vars, thread_vars>>

\* the caller goes on feeding the value: a call that can be made is made
InitConverge == ScoreIdle /\ SustainInit /\ ApiIdle /\ ThreadsIdle
SpecConverge == InitConverge /\ [][Sustain]_vars /\ WF_vars(SustainCall)

\* a process that serves /oracle requests one after the other, get_posts()
\* returning any bounded list of raw posts
ServedPosts ==
    {[text |-> t, engagement |-> 1, timestamp |-> "t", author |-> "a"] :
        t \in {Words("a", 5), Words("b", 2)}}
ServeInit ==
    /\ now = 0
    /\ mode = INGESTION_MODE
    /\ fetch_interval = RSS_FETCH_INTERVAL
    /\ last_fetch_time = EmptyDict
    /\ cache = EmptyDict
    /\ window_size = DEDUP_WINDOW_SIZE
    /\ hash_order = <<>>
    /\ hash_set = {}
    /\ sources = EmptyDict
    /\ dedup_count = 0
    /\ total_cycles = 0
    /\ last_op = [op |-> "serve", raised |-> FALSE, result |-> <<>>]
InitServe == ScoreIdle /\ SmoothIdle /\ ServeInit /\ ApiIdle /\ ThreadsIdle
ServeNext == \E raw_posts \in SeqsUpTo(ServedPosts, MaxPipelineLen) : OracleGiven(raw_posts)
SpecServe == InitServe /\ [][ServeNext]_vars

\* a process whose dataset source is fetched again and again
InitTwitter == ScoreIdle /\ SmoothIdle /\ TwitterInit /\ ApiIdle /\ ThreadsIdle
SpecTwitter == InitTwitter /\ [][FetchTwitterPosts]_vars

\* the scoring engine called on its own with any bounded input, or the stages run
\* on any bounded list of raw posts
InitPipeline ==
    \/ ScoreInit /\ SmoothIdle /\ RouterOff /\ ApiIdle /\ ThreadsIdle
    \/ PipelineInit /\ SmoothIdle /\ ApiIdle /\ ThreadsIdle
PipelineNext == ComputeAlone \/ RunPipeline
SpecPipeline == InitPipeline /\ [][PipelineNext]_vars

Init == ScoreIdle /\ SmoothIdle /\ RouterIdle /\ ApiIdle /\ ThreadsIdle
Next == Compute \/ SmoothNext \/ GetPosts \/ Tick
Spec == Init /\ [][Next]_vars

(***************************************************************************)
(* Claims                                                                  *)
(***************************************************************************)
InRange(h) == MIN_SCORE * 100 <= h /\ h <= MAX_SCORE * 100

\* C1: for every list of analyzed posts (empty or not) with engagement >= 0,
\* confidence in [0,1] and polarity +1 or -1, compute() returns a raw_score with
\* MIN_SCORE <= raw_score <= MAX_SCORE.
C1_RawScoreBounded ==
    snapshot # None => InRange(snapshot[1].raw_score)

\* C1 witness: compute() has returned the extreme score for a list of several posts.
C1_Witness ==
    /\ snapshot # None
    /\ Len(posts) >= 2
    /\ snapshot[1].raw_score = MIN_SCORE * 100

\* C2: with alpha in [0,1] and every input in [MIN_SCORE, MAX_SCORE], every value
\* smooth() returns, every value in the history and the stored previous_score lie in
\* [MIN_SCORE, MAX_SCORE].
C2_SmoothedBounded ==
    /\ smoothed # None => InRange(smoothed[1])
    /\ previous_score # None => InRange(previous_score[1])
    /\ \A i \in 1..Len(history) : InRange(history[i])

\* C2 witness: with the default alpha, the seed and a blended value sit on the upper
\* bound and a later blended value has moved off it.
C2_Witness ==
    /\ alpha = EMA_ALPHA
    /\ Len(history) >= 3
    /\ history[1] = MAX_SCORE * 100
    /\ history[2] = MAX_SCORE * 100
    /\ history[3] < MAX_SCORE * 100
    /\ previous_score = Some(history[Len(history)])

(***************************************************************************)
(* The router's claims.  In a get_posts() step, last_op'.fetches[s] tells   *)
(* of the fetch of source s: at (the clock reading of the call), invoked    *)
(* (how often the adapter was invoked), raises (the adapter raised), ret    *)
(* (the list StreamManager.fetch returned, or the mock adapter's list) and  *)
(* is_fresh (the freshness the router obtained for that fetch).             *)
(***************************************************************************)
ManagedSources == {"reddit", "twitter"}
IsGetPosts == last_op'.op = "get_posts"
Managed == DOMAIN last_op'.fetches \cap ManagedSources

\* C3: after a successful fetch for source s at time t, every fetch for s made
\* earlier than t + fetch_interval does not invoke the adapter, returns exactly the
\* cached posts and reports isFresh = false.
C3_CooldownServesCache ==
    [][IsGetPosts =>
         \A s \in Managed :
            LET f == last_op'.fetches[s]
            IN  (s \in DOMAIN last_fetch_time /\ f.at < last_fetch_time[s] + fetch_interval)
                    => /\ f.invoked = 0
                       /\ f.ret = cache[s]
                       /\ ~f.is_fresh]_vars

\* C4: a fetch for s made when s has no prior fetch (whatever the clock reads) or
\* when at least fetch_interval has elapsed since its last successful fetch invokes
\* the adapter exactly once; if the adapter returns posts, they become the cache of
\* s, the call's time becomes the last-fetch time of s, and the call returns them as
\* fresh.
C4_FetchWhenDue ==
    [][IsGetPosts =>
         \A s \in Managed :
            LET f == last_op'.fetches[s]
            IN  (s \notin DOMAIN last_fetch_time \/ f.at - last_fetch_time[s] >= fetch_interval)
                    => /\ f.invoked = 1
                       /\ ~f.raises =>
                            /\ s \in DOMAIN cache' /\ cache'[s] = f.ret
                            /\ s \in DOMAIN last_fetch_time' /\ last_fetch_time'[s] = f.at
                            /\ f.is_fresh]_vars

\* C5: when the adapter raises inside StreamManager.fetch, the cache entry and the
\* last-fetch time of the source are unchanged, the call returns the cached posts
\* (or an empty list) with isFresh = false, and the next fetch for the source is due
\* at once.
C5_FailureFallsBackToCache ==
    [][IsGetPosts =>
         \A s \in Managed :
            LET f == last_op'.fetches[s]
            IN  f.raises
                    => /\ Get(cache', s, None) = Get(cache, s, None)
                       /\ (s \in DOMAIN cache') = (s \in DOMAIN cache)
                       /\ Get(last_fetch_time', s, -1) = Get(last_fetch_time, s, -1)
                       /\ f.ret = Get(cache, s, <<>>)
                       /\ f.at - Get(last_fetch_time', s, 0) >= fetch_interval
                       /\ ~f.is_fresh]_vars

\* C32: for every source, the StreamManager's cache is the value returned by the
\* most recent fetch_fn invocation for the source that did not raise, an empty list
\* included: an invocation that returns (an adapter that reports a failure by
\* returning [] too) replaces the cached posts and starts a new cooldown; an
\* invocation that raises, a call on cooldown and every other step leave the cache
\* and the last-fetch time of the source as they were.
C32_CacheIsLastReturn ==
    [][\A s \in ManagedSources :
         IF /\ IsGetPosts
            /\ s \in DOMAIN last_op'.fetches
            /\ last_op'.fetches[s].invoked = 1
            /\ ~last_op'.fetches[s].raises
         THEN LET f == last_op'.fetches[s]
              IN  /\ s \in DOMAIN cache' /\ cache'[s] = f.ret
                  /\ f.failure => cache'[s] = <<>>
                  /\ s \in DOMAIN last_fetch_time' /\ last_fetch_time'[s] = f.at
         ELSE /\ (s \in DOMAIN cache') = (s \in DOMAIN cache)
              /\ Get(cache', s, <<>>) = Get(cache, s, <<>>)
              /\ Get(last_fetch_time', s, -1) = Get(last_fetch_time, s, -1)]_vars

\* C32 witness: an adapter failure answered with the empty list has replaced two
\* cached posts and restarted the cooldown.
C32_Witness ==
    /\ last_op.op = "get_posts"
    /\ "reddit" \in DOMAIN last_op.fetches
    /\ last_op.fetches["reddit"].failure
    /\ Len(last_op.fetches["reddit"].before) = 2
    /\ cache["reddit"] = <<>>
    /\ last_fetch_time["reddit"] = last_op.fetches["reddit"].at

\* at least one source enabled by the mode delivered fresh data in this call
SomeFresh ==
    \E s \in DOMAIN last_op'.fetches :
        last_op'.fetches[s].invoked = 1 /\ ~last_op'.fetches[s].raises

\* the cached posts of the enabled sources, concatenated in the router's order
CachedPosts(m, ch) ==
    IF m = "hybrid" THEN Get(ch, "reddit", <<>>) \o Get(ch, "twitter", <<>>)
    ELSE IF m = "rss" THEN Get(ch, "reddit", <<>>)
    ELSE IF m = "twitter" THEN Get(ch, "twitter", <<>>)
    ELSE <<>>

\* C6: get_posts() invokes the rolling deduplicator if and only if at least one
\* enabled source returned fresh data in this call; when none was fresh it returns
\* the concatenated cached posts unchanged and leaves the dedup window unmodified.
C6_DedupGating ==
    [][IsGetPosts =>
         /\ last_op'.dedup_called <=> SomeFresh
         /\ ~SomeFresh =>
              /\ ~last_op'.raised
              /\ last_op'.result = CachedPosts(last_op'.mode, cache')
              /\ UNCHANGED <<hash_order, hash_set>>]_vars

failure_count(srcs, s) == Get(srcs, s, SourceMetrics).failure_count

\* C7: in hybrid mode, a get_posts() cycle in which one adapter raises while the
\* other is fetched fresh and returns posts returns non-empty output, increases the
\* failing source's failure_count by one, and leaves the healthy source's
\* failure_count as it was (0 from the start).
C7_OutageIsolation ==
    [][(IsGetPosts /\ last_op'.mode = "hybrid") =>
         \A bad \in ManagedSources : \A good \in ManagedSources \ {bad} :
            LET fb == last_op'.fetches[bad]
                fg == last_op'.fetches[good]
            IN  (fb.raises /\ fg.invoked = 1 /\ ~fg.raises /\ fg.ret # <<>>)
                    => /\ ~last_op'.raised
                       /\ last_op'.result # <<>>
                       /\ failure_count(sources', bad) = failure_count(sources, bad) + 1
                       /\ failure_count(sources', good) = failure_count(sources, good)]_vars

\* C8: every get_posts() call runs to completion and returns a list of posts without
\* raising, whatever each adapter does, in every ingestion mode.
C8_GetPostsNeverRaises ==
    last_op.op = "get_posts" => ~last_op.raised

\* C9: every call to get_posts() increases total_cycles by exactly 1, in every mode
\* and whatever the sources do.
C9_CycleCountedOnce ==
    [][IsGetPosts => total_cycles' = total_cycles + 1]_vars

\* C10: in each get_posts() call, for every source enabled by the mode exactly one
\* fetch outcome is recorded: a success with post_count = the number of posts
\* returned when the fetch returned posts, a failure only when the fetch failed.
C10_FetchOutcomeRecorded ==
    [][IsGetPosts =>
         \A s \in EnabledSources(last_op'.mode) :
            LET before == Get(sources, s, SourceMetrics)
                after  == Get(sources', s, SourceMetrics)
                f      == last_op'.fetches[s]
            IN  /\ after.fetch_count = before.fetch_count + 1
                /\ after.success_count = before.success_count + 1
                /\ after.total_posts = before.total_posts + Len(f.ret)
                /\ after.failure_count = before.failure_count]_vars

success_count(srcs, s) == Get(srcs, s, SourceMetrics).success_count

\* C11: when a source adapter suffers an internal failure and returns an empty
\* list, that fetch is recorded in the metrics tracker as a failure of that source
\* (failure_count incremented) and not as a success.
C11_AdapterFailureRecorded ==
    [][IsGetPosts =>
         \A s \in Managed :
            last_op'.fetches[s].failure
                => /\ failure_count(sources', s) = failure_count(sources, s) + 1
                   /\ success_count(sources', s) = success_count(sources, s)]_vars

\* C11 witness: a get_posts() call in which an adapter failed internally has
\* returned, with the failure recorded for that source.
C11_Witness ==
    /\ last_op.op = "get_posts"
    /\ ~last_op.raised
    /\ \E s \in DOMAIN last_op.fetches \cap ManagedSources :
          /\ last_op.fetches[s].failure
          /\ last_op.fetches[s].ret = <<>>
          /\ failure_count(sources, s) >= 1

(***************************************************************************)
(* The rolling deduplicator's claims                                       *)
(***************************************************************************)
\* C12: after every deduplicate() call the number of hashes in the window (the
\* length of the queue and the size of the set) is at most window_size, for any
\* sequence of batches, including a batch larger than the window.
C12_WindowBounded ==
    /\ Len(hash_order) <= window_size
    /\ Cardinality(hash_set) <= window_size

\* C12 witness: a call has admitted more posts than the window holds and has left
\* a full window.
C12_Witness ==
    /\ last_op.op = "deduplicate"
    /\ window_size >= 1
    /\ Len(last_op.result) > window_size
    /\ Len(hash_order) = window_size

\* C13: if a post was admitted in one cycle, a post whose text is the same up to
\* case and surrounding whitespace, submitted in a later cycle, is dropped.
C13_LaterCopyDropped ==
    [][last_op'.op = "deduplicate" =>
         \A i \in 1..Len(last_op'.posts) :
            lower(strip(last_op'.posts[i].text)) \in last_op.admitted
                => \A j \in 1..Len(last_op'.result) :
                      last_op'.result[j] # last_op'.posts[i]]_vars

\* C13 as amended: a post whose text is, up to case and surrounding whitespace, the
\* text of a post admitted in an earlier cycle is dropped as long as fewer than
\* window_size posts were admitted after that post in the cycles before this one
\* (its hash has not been evicted from the window).
C13_LaterCopyDroppedWhileInWindow ==
    [][last_op'.op = "deduplicate" =>
         \A i \in 1..Len(last_op'.posts) :
            (\E k \in 1..Len(last_op.recent) :
                last_op.recent[k] = lower(strip(last_op'.posts[i].text)))
                => \A j \in 1..Len(last_op'.result) :
                      last_op'.result[j] # last_op'.posts[i]]_vars

\* C13 witness: a call was given a case and whitespace variant of a text admitted
\* earlier and still in the window, and returned nothing.
C13_Witness ==
    /\ last_op.op = "deduplicate"
    /\ last_op.posts = <<RawPost("reddit", 2)>>
    /\ last_op.result = <<>>
    /\ lower(strip(TextOf(2))) \in last_op.admitted
    /\ last_op.recent # <<>>
    /\ last_op.recent[Len(last_op.recent)] = lower(strip(TextOf(2)))
    /\ Len(hash_order) = window_size

\* a post of the batch that deduplicate() looks up in the window: long enough, and
\* the first of the batch with its normalized text
LookedUp(ps, i) ==
    /\ word_count(ps[i].text) >= MIN_POST_WORD_COUNT
    /\ \A j \in 1..(i - 1) : lower(strip(ps[j].text)) # lower(strip(ps[i].text))

\* the posts admitted by the call before it reaches the i-th post of its batch
AdmittedBefore(ps, i) ==
    dedup_loop(SubSeq(ps, 1, i - 1), hash_order, hash_set, <<>>).result

\* C31: after every deduplicate() call the queue holds the hashes of the most
\* recently admitted min(window_size, number admitted) posts in admission order,
\* the membership set is the set of hashes of the queue, and no hash is twice in
\* the queue; a dropped duplicate does not refresh its hash's position, so a text
\* seen before is admitted again as soon as window_size distinct posts have been
\* admitted after it, those admitted earlier in the same batch included.
C31_FifoWindow ==
    [][last_op'.op = "deduplicate" =>
         /\ hash_order' = [k \in 1..Len(last_op'.recent) |-> <<"sha256", last_op'.recent[k]>>]
         /\ hash_set' = {hash_order'[k] : k \in 1..Len(hash_order')}
         /\ \A j, k \in 1..Len(hash_order') : hash_order'[j] = hash_order'[k] => j = k
         /\ \A i \in 1..Len(last_op'.posts) :
              LET seen == LastN(last_op.recent \o
                                  [k \in 1..Len(AdmittedBefore(last_op'.posts, i)) |->
                                      lower(strip(AdmittedBefore(last_op'.posts, i)[k].text))],
                                window_size)
              IN  (/\ LookedUp(last_op'.posts, i)
                   /\ \A k \in 1..Len(seen) : seen[k] # lower(strip(last_op'.posts[i].text)))
                     => \E j \in 1..Len(last_op'.result) :
                           last_op'.result[j] = last_op'.posts[i]]_vars

\* C31 as amended: the same structure of the window after every call, and a text
\* seen before is admitted again once window_size distinct posts have been admitted
\* after it in the calls before this one: the window is only trimmed when a call
\* ends, so the posts admitted earlier in the same batch do not count.
C31_FifoWindowBetweenCalls ==
    [][last_op'.op = "deduplicate" =>
         /\ hash_order' = [k \in 1..Len(last_op'.recent) |-> <<"sha256", last_op'.recent[k]>>]
         /\ hash_set' = {hash_order'[k] : k \in 1..Len(hash_order')}
         /\ \A j, k \in 1..Len(hash_order') : hash_order'[j] = hash_order'[k] => j = k
         /\ \A i \in 1..Len(last_op'.posts) :
              (/\ LookedUp(last_op'.posts, i)
               /\ \A k \in 1..Len(last_op.recent) :
                     last_op.recent[k] # lower(strip(last_op'.posts[i].text)))
                 => \E j \in 1..Len(last_op'.result) :
                       last_op'.result[j] = last_op'.posts[i]]_vars

\* C31 witness: a call has admitted again a text admitted before, whose hash had
\* left the full window.
C31_Witness ==
    /\ last_op.op = "deduplicate"
    /\ last_op.posts = <<RawPost("reddit", 1)>>
    /\ last_op.result = <<RawPost("reddit", 1)>>
    /\ last_op.readmitted = {lower(strip(TextOf(1)))}
    /\ window_size = 2
    /\ Len(hash_order) = 2

(***************************************************************************)
(* The aggregator's claims                                                 *)
(***************************************************************************)
Aggregated == snapshot # None /\ snapshot[1].op = "aggregate"
NormText(post) == lower(strip(post.text))

\* C14: within one aggregate() call, posts whose texts are the same up to case and
\* surrounding whitespace collapse to one: the output never holds two posts of the
\* same normalized text, and any number (>= 1) of such variants of a single text
\* yields exactly one post.
C14_VariantsCollapse ==
    Aggregated =>
        LET out == snapshot[1].result
        IN  /\ \A i, j \in 1..Len(out) : NormText(out[i]) = NormText(out[j]) => i = j
            /\ (posts # <<>> /\ \A i \in 1..Len(posts) : NormText(posts[i]) = NormText(posts[1]))
                  => Len(out) = 1

\* C14 witness: three posts of one text, in two variants, were aggregated to one.
C14_Witness ==
    /\ Aggregated
    /\ Len(posts) = 3
    /\ \A i \in 1..3 : NormText(posts[i]) = NormText(posts[1])
    /\ \E i \in 1..3 : posts[i].text # posts[1].text
    /\ Len(snapshot[1].result) = 1

\* the engagement of a post: a post without the field has engagement 1
engagement_of(post) == Get(post, "engagement", 1)

\* the positions of the input posts that have the normalized text of post q
SameText(q) == {i \in 1..Len(posts) : NormText(posts[i]) = NormText(q)}

\* C15: among posts with the same normalized text, aggregate() keeps the copy with
\* the highest engagement, and among copies tied on the highest engagement the one
\* that came first in the input.
C15_HighestEngagementCopyKept ==
    Aggregated =>
        \A k \in 1..Len(snapshot[1].result) :
            LET q == snapshot[1].result[k]
                best == {i \in SameText(q) :
                           \A j \in SameText(q) :
                              engagement_of(posts[j]) <= engagement_of(posts[i])}
            IN  \E i \in best : q = posts[i] /\ \A j \in best : i <= j

\* C16: aggregate() returns at most MAX_POSTS posts and never more than its input;
\* the posts returned are the MAX_POSTS highest-engagement distinct-text posts, in
\* non-increasing engagement order; the input list is not modified.
C16_TopPostsInOrder ==
    [][(snapshot' # None /\ snapshot'[1].op = "aggregate") =>
         LET out == snapshot'[1].result
             cap == snapshot'[1].max_posts
             texts == {NormText(posts[i]) : i \in 1..Len(posts)}
         IN  /\ Len(out) <= cap
             /\ Len(out) <= Len(posts)
             /\ Len(out) = IF Cardinality(texts) < cap THEN Cardinality(texts) ELSE cap
             /\ \A k \in 1..Len(out) : \E i \in 1..Len(posts) : out[k] = posts[i]
             /\ \A k \in 1..Len(out) : \A i \in 1..Len(posts) :
                   (\A j \in 1..Len(out) : NormText(out[j]) # NormText(posts[i]))
                      => engagement_of(posts[i]) <= engagement_of(out[k])
             /\ \A k \in 1..(Len(out) - 1) :
                   engagement_of(out[k]) >= engagement_of(out[k + 1])
             /\ posts' = posts]_vars

\* the input of aggregate() is one post or several copies of one post
CopiesOfOne == posts # <<>> /\ \A i \in 1..Len(posts) : posts[i] = posts[1]

\* C17: for any post p and any N >= 1, N copies of p (of identical engagement)
\* passed through aggregate() and then scored by compute() give the raw_score of a
\* single instance of p.
C17_SpamFloodSameScore ==
    (Aggregated /\ CopiesOfOne)
        => snapshot[1].scored.raw_score = compute(<<posts[1]>>).raw_score

\* C17 witness: three copies of a post of positive weight were aggregated and
\* scored at the lower bound, the score of the post alone.
C17_Witness ==
    /\ Aggregated
    /\ CopiesOfOne
    /\ Len(posts) = 3
    /\ snapshot[1].scored.post_count = 1
    /\ snapshot[1].scored.raw_score = MIN_SCORE * 100

(***************************************************************************)
(* The scoring engine's claims                                             *)
(***************************************************************************)
\* C18: for every input of compute(), post_count is the number of input posts,
\* positive_count the number of posts with polarity > 0, negative_count the number
\* with polarity <= 0, and positive_count + negative_count = post_count; the same
\* equality holds in every /oracle response that carries a score, over any sequence
\* of requests.
C18_CountsConsistent ==
    /\ snapshot # None =>
          LET r == snapshot[1]
          IN  /\ r.post_count = Len(posts)
              /\ r.positive_count =
                    Cardinality({i \in 1..Len(posts) : posts[i].sentiment.polarity_score > 0})
              /\ r.negative_count =
                    Cardinality({i \in 1..Len(posts) : posts[i].sentiment.polarity_score <= 0})
              /\ r.positive_count + r.negative_count = r.post_count
    /\ (response # None /\ response[1].status = "ok") =>
          response[1].body.positive_count + response[1].body.negative_count
              = response[1].body.post_count

\* C18 witness: compute() has counted a positive and a negative post.
C18_Witness ==
    /\ snapshot # None
    /\ Len(posts) = 2
    /\ snapshot[1].positive_count = 1
    /\ snapshot[1].negative_count = 1

\* C20: Smoother.smooth(raw) returns raw rounded to 2 decimals when there is no
\* previous value, and otherwise alpha * raw + (1 - alpha) * previous rounded to 2
\* decimals; the value returned is stored as the new previous value; with alpha
\* 0.3, smooth(50.0) is 50.0 and a following smooth(100.0) is 65.0.
C20_SeedThenBlend ==
    [][smooth_arg' # smooth_arg \/ Len(history') > Len(history) =>
          LET raw      == smooth_arg'[1]
              returned == smoothed'[1]
              weighted == FMul(alpha, raw)
              kept     == FMul(FAdd(FInt(1), FMul(FInt(-1), alpha)),
                               OfHundredths(previous_score[1]))
          IN  /\ previous_score = None => returned = round2(raw)
              /\ previous_score # None => returned = round2(FAdd(weighted, kept))
              /\ previous_score' = Some(returned)
              /\ (alpha = EMA_ALPHA /\ previous_score = None /\ raw = FInt(50))
                    => returned = 5000
              /\ (alpha = EMA_ALPHA /\ previous_score = Some(5000) /\ raw = FInt(100))
                    => returned = 6500
    ]_vars

\* C20 witness: a smoother of alpha 0.3 was given 50.0 and then 100.0, and holds
\* 65.0 as its previous value.
C20_Witness ==
    /\ alpha = EMA_ALPHA
    /\ history = <<5000, 6500>>
    /\ smooth_arg = Some(FInt(100))
    /\ previous_score = Some(6500)

\* one smooth() call was made in the step
SmoothStep == Len(history') = Len(history) + 1

\* C21: with alpha = 0, every smooth() call after the seeding call returns the seed
\* value, whatever the inputs; with alpha = 1 every smooth() call returns its own
\* input, whatever the history.
C21_AlphaEdges ==
    [][SmoothStep =>
          /\ (alpha = FInt(0) /\ previous_score # None) => smoothed' = Some(history[1])
          /\ alpha = FInt(1) => OfHundredths(smoothed'[1]) = smooth_arg'[1]
    ]_vars

\* C21 as amended: with alpha = 0, every smooth() call after the seeding call
\* returns the seed value (the value the seeding call returned); with alpha = 1
\* every smooth() call returns its input rounded to 2 decimals, which is the input
\* itself when the input has no more than 2 decimals.
C21_AlphaEdgesRounded ==
    [][SmoothStep =>
          /\ (alpha = FInt(0) /\ previous_score # None) => smoothed' = Some(history[1])
          /\ alpha = FInt(1) =>
                /\ smoothed' = Some(round2(smooth_arg'[1]))
                /\ OfHundredths(round2(smooth_arg'[1])) = smooth_arg'[1]
                      => OfHundredths(smoothed'[1]) = smooth_arg'[1]
    ]_vars

\* C21 witness: a smoother of alpha 1 seeded at 50.0 has passed 100.0 through and
\* has returned 12.35 for 12.345.
C21_Witness ==
    /\ alpha = FInt(1)
    /\ history = <<5000, 10000, 1235>>
    /\ smooth_arg = Some(Frac(12345, 1000))

\* C22: when the post set of a cycle is empty (nothing ingested, or everything
\* filtered), the smoother's previous value after the cycle is its previous value
\* before the cycle.
C22_EmptyCycleKeepsSmoother ==
    [][(total_cycles' = total_cycles + 1 /\ posts' = <<>>)
          => previous_score' = previous_score]_vars

\* C23: record_fetch(source, success, post_count, latency, error) increments the
\* source's fetch_count and sets its last_fetch_time on every call; on success it
\* increments success_count and adds post_count to total_posts and latency to
\* total_latency, leaving failure_count and last_error unchanged; on failure it
\* increments failure_count and stores last_error, leaving success_count,
\* total_posts and total_latency unchanged; the metrics of every other source and
\* the global counters are unchanged.
C23_RecordFetchEffect ==
    [][last_op'.op = "record_fetch" =>
          LET c      == last_op'
              before == IF c.source \in DOMAIN sources THEN sources[c.source]
                        ELSE SourceMetrics
              after  == sources'[c.source]
          IN  /\ after.fetch_count = before.fetch_count + 1
              /\ after.last_fetch_time = Some(now')
              /\ c.success =>
                    /\ after.success_count = before.success_count + 1
                    /\ after.total_posts = before.total_posts + c.post_count
                    /\ after.total_latency_ms = before.total_latency_ms + c.latency_ms
                    /\ after.failure_count = before.failure_count
                    /\ after.last_error = before.last_error
              /\ ~c.success =>
                    /\ after.failure_count = before.failure_count + 1
                    /\ after.last_error = c.error
                    /\ after.success_count = before.success_count
                    /\ after.total_posts = before.total_posts
                    /\ after.total_latency_ms = before.total_latency_ms
              /\ DOMAIN sources' = DOMAIN sources \cup {c.source}
              /\ \A other \in DOMAIN sources \ {c.source} :
                    sources'[other] = sources[other]
              /\ dedup_count' = dedup_count
              /\ total_cycles' = total_cycles
    ]_vars

\* C23 witness: a source has a failure recorded after a success, next to another
\* source and to global counters that are not zero.
C23_Witness ==
    /\ last_op.op = "record_fetch"
    /\ ~last_op.success
    /\ sources[last_op.source].success_count = 1
    /\ sources[last_op.source].failure_count = 1
    /\ sources[last_op.source].total_posts = 2
    /\ Cardinality(DOMAIN sources) = 2
    /\ dedup_count > 0
    /\ total_cycles > 0

\* the threads whose call satisfies the test
CallsOf(op, test(_)) ==
    {t \in DOMAIN threads : threads[t].call.op = op /\ test(threads[t].call)}

\* C24: when record_fetch, record_dedup, record_cycle and get_metrics are called
\* from several threads at once, no update is lost (once every call has returned,
\* the counters are the sums over the calls), and no snapshot of get_metrics is
\* taken in the middle of a record_fetch (in every snapshot, each source has
\* fetch_count = success_count + failure_count).
C24_MetricsMutualExclusion ==
    /\ (\A t \in DOMAIN threads : Returned(t)) =>
          /\ \A s \in {"reddit", "twitter"} :
                LET of_s(c)    == c.source = s
                    ok_s(c)    == c.source = s /\ c.success
                    fail_s(c)  == c.source = s /\ ~c.success
                    m          == Get(sources, s, SourceMetrics)
                IN  /\ m.fetch_count = Cardinality(CallsOf("record_fetch", of_s))
                    /\ m.success_count = Cardinality(CallsOf("record_fetch", ok_s))
                    /\ m.failure_count = Cardinality(CallsOf("record_fetch", fail_s))
                    /\ m.total_posts = 2 * Cardinality(CallsOf("record_fetch", ok_s))
                    /\ m.total_latency_ms = Cardinality(CallsOf("record_fetch", ok_s))
          /\ LET any(c) == TRUE
             IN  /\ dedup_count = Cardinality(CallsOf("record_dedup", any))
                 /\ total_cycles = Cardinality(CallsOf("record_cycle", any))
    /\ \A t \in DOMAIN threads :
          threads[t].ret # None =>
             \A name \in DOMAIN threads[t].ret[1].sources :
                LET m == threads[t].ret[1].sources[name]
                IN  m.fetch_count = m.success_count + m.failure_count

\* C24 witness: three threads have returned, two from record_fetch on one source
\* (a success and a failure) and one from get_metrics, whose snapshot counts one
\* of the two fetches.
C24_Witness ==
    /\ \A t \in 1..NumThreads : Returned(t)
    /\ "reddit" \in DOMAIN sources
    /\ sources["reddit"].success_count = 1
    /\ sources["reddit"].failure_count = 1
    /\ \E t \in DOMAIN threads :
          /\ threads[t].ret # None
          /\ "reddit" \in DOMAIN threads[t].ret[1].sources
          /\ threads[t].ret[1].sources["reddit"].fetch_count = 1

\* thread t has run a statement of its call and has not returned
Running(t) == threads[t].pc \notin {"enter", "return"}

\* C25: the dedup window and the smoother's previous value and history are each
\* guarded by a critical section: when calls are made concurrently, no smooth()
\* or deduplicate() call interleaves with another call on the same component, so
\* that no post hash is admitted twice and, once the calls have returned,
\* previous_score is the last history entry.
C25_ComponentsGuarded ==
    /\ \A t1, t2 \in DOMAIN threads :
          (t1 # t2 /\ threads[t1].call.op = threads[t2].call.op)
             => ~(Running(t1) /\ Running(t2))
    /\ \A i, j \in 1..Len(hash_order) : hash_order[i] = hash_order[j] => i = j
    /\ ((\A t \in DOMAIN threads : threads[t].pc = "return") /\ history # <<>>)
          => previous_score = Some(history[Len(history)])

\* thread t is in the ingestion/dedup -> score -> smooth section of its cycle:
\* get_posts() has returned and smooth() has not
InCycle(t) == threads[t].pc \in {"score", "enter", "blend", "store", "append"}

\* C26: the /oracle and /sentiment handlers serialize cycle execution: when
\* requests overlap, the ingestion/dedup -> score -> smooth section of one cycle
\* never overlaps that of another, so every cycle but the first blends with the
\* smoothed value the previous cycle stored (at most one cycle finds the smoother
\* unseeded).
C26_CyclesSerialized ==
    /\ \A t1, t2 \in Handlers : (InCycle(t1) /\ InCycle(t2)) => t1 = t2
    /\ \A t1, t2 \in Handlers : (threads[t1].is_none /\ threads[t2].is_none) => t1 = t2

\* C27: when the normalization ceiling is zero (every post has weight 0 because
\* its engagement or its confidence is 0), compute() divides by no zero, returns
\* raw_score 0 and still reports post_count and the polarity counts of its input.
C27_ZeroCeilingGuarded ==
    (snapshot # None /\ posts # <<>> /\ \A i \in 1..Len(posts) : weight(posts[i]) = Zero)
        => /\ \A k \in DOMAIN divisors(posts) : divisors(posts)[k] # Zero
           /\ snapshot[1].raw_score = 0
           /\ snapshot[1].post_count = Len(posts)
           /\ snapshot[1].positive_count =
                 Cardinality({i \in 1..Len(posts) : posts[i].sentiment.polarity_score > 0})
           /\ snapshot[1].negative_count =
                 Cardinality({i \in 1..Len(posts) : posts[i].sentiment.polarity_score <= 0})

\* C27 witness: compute() has scored a post of engagement 0 and a post of
\* confidence 0, one positive and one negative.
C27_Witness ==
    /\ snapshot # None
    /\ Len(posts) = 2
    /\ Get(posts[1], "engagement", 1) = 0 /\ posts[1].sentiment.confidence # Zero
    /\ Get(posts[2], "engagement", 1) = 2 /\ posts[2].sentiment.confidence = Zero
    /\ snapshot[1] = [raw_score |-> 0, post_count |-> 2, positive_count |-> 1,
                      negative_count |-> 1]

\* every post of the list is one clean_posts() drops: capitals only, or fewer than
\* MIN_POST_WORD_COUNT words once cleaned
AllFiltered(ps) ==
    \A i \in 1..Len(ps) :
        \/ is_shouting(Get(ps[i], "text", <<>>))
        \/ word_count(clean_text(Get(ps[i], "text", <<>>))) < MIN_POST_WORD_COUNT

\* C28: compute([]) returns exactly raw_score 0.0, post_count 0, positive_count 0
\* and negative_count 0, and a pipeline run whose posts are all filtered out before
\* scoring yields raw_score 0.0 and post_count 0.
C28_EmptyInputZero ==
    /\ (last_op.op = "off" /\ snapshot # None /\ posts = <<>>)
          => snapshot[1] = [raw_score |-> 0, post_count |-> 0, positive_count |-> 0,
                            negative_count |-> 0]
    /\ (last_op.op = "pipeline" /\ snapshot # None /\ AllFiltered(posts))
          => /\ snapshot[1].scored.raw_score = 0
             /\ snapshot[1].scored.post_count = 0

\* C28 witness: the stages have run on two posts, one too short and one in capitals.
C28_Witness ==
    /\ last_op.op = "pipeline"
    /\ snapshot # None
    /\ Len(posts) = 2
    /\ posts[1].text = Words("b", 2)
    /\ posts[2].text = Words("A", 6)
    /\ snapshot[1].scored.post_count = 0

\* the modes get_posts() has a branch for
KnownModes == {"mock", "rss", "twitter", "hybrid"}

\* C29: with an unknown ingestion mode, get_posts() does not raise: it fetches from
\* the mock source only (one fetch, recorded under "mock"), leaves the stream
\* manager and the metrics of the other sources alone, calls the deduplicator and
\* counts one cycle.
C29_UnknownModeFallsBackToMock ==
    [][(last_op'.op = "get_posts" /\ mode_lower(mode) \notin KnownModes)
          => /\ ~last_op'.raised
             /\ DOMAIN last_op'.fetches = {"mock"}
             /\ last_op'.fetches["mock"].invoked = 1
             /\ last_fetch_time' = last_fetch_time
             /\ cache' = cache
             /\ DOMAIN sources' = {"mock"}
             /\ Get(sources', "mock", SourceMetrics).fetch_count
                   = Get(sources, "mock", SourceMetrics).fetch_count + 1
             /\ last_op'.dedup_called
             /\ Len(hash_order') <= window_size
             /\ total_cycles' = total_cycles + 1]_vars

\* C29 witness: a process of mode "legacy" has answered two get_posts() calls.
C29_Witness ==
    /\ mode = "legacy"
    /\ last_op.op = "get_posts"
    /\ ~last_op.raised
    /\ DOMAIN sources = {"mock"}
    /\ sources["mock"].fetch_count = 2
    /\ total_cycles = 2

\* the sources whose success rate is below 50% with at least one fetch
BelowHalf(srcs) ==
    {s \in DOMAIN srcs : srcs[s].fetch_count > 0
                           /\ 2 * srcs[s].success_count < srcs[s].fetch_count}

\* C30: in the health object, the ingestion status and the overall status are
\* "degraded" exactly when at least one recorded source has fetch_count > 0 and a
\* success rate below 50% (a source with fetch_count = 0 never degrades), and
\* has_history is true exactly when smooth() has been called at least once.
C30_HealthDegradedIff ==
    [][(last_op'.op = "health" /\ UNCHANGED smoother_vars)
          => LET health == response'[1].body
             IN  /\ (health.components.ingestion.status = "degraded")
                        <=> (BelowHalf(sources) # {})
                 /\ (health.status = "degraded") <=> (BelowHalf(sources) # {})
                 /\ health.components.smoothing.has_history <=> (smooth_arg # None)]_vars

\* C33: every smooth() call appends the value it returns to the history of its
\* instance and stores it as previous_score, so after n calls the history has
\* length n, its i-th element is what the i-th call returned and previous_score
\* is the last element (unset iff n = 0); a call on one instance changes neither
\* the previous_score nor the history of the other.
C33_HistoryTracksCalls ==
    [][/\ (previous_score = None) <=> (history = <<>>)
       /\ (other_smoother.previous_score = None) <=> (other_smoother.history = <<>>)
       /\ (history' # history \/ previous_score' # previous_score \/ smoothed' # smoothed)
            => /\ smoothed' # None
               /\ history' = Append(history, smoothed'[1])
               /\ previous_score' = Some(history'[Len(history')])
               /\ other_smoother' = other_smoother
       /\ other_smoother' # other_smoother
            => /\ other_smoother'.returned # None
               /\ other_smoother'.history
                     = Append(other_smoother.history, other_smoother'.returned[1])
               /\ other_smoother'.previous_score
                     = Some(other_smoother'.history[Len(other_smoother'.history)])
               /\ history' = history
               /\ previous_score' = previous_score]_vars

\* C33 witness: one instance has been called three times and the other once, with
\* different inputs.
C33_Witness ==
    /\ history = <<5000, 6500, 4920>>
    /\ previous_score = Some(4920)
    /\ other_smoother.history = <<10000>>
    /\ other_smoother.previous_score = Some(10000)

\* C34: for alpha in [0,1], an existing previous value p and a raw input r given
\* to 2 decimals, smooth(r) returns a value between p and r inclusive, so that
\* |smoothed| <= max(|p|, |r|).
C34_Dampening ==
    [][(/\ SmoothStep
        /\ previous_score # None
        /\ OfHundredths(round2(smooth_arg'[1])) = smooth_arg'[1])
          => LET p  == previous_score[1]
                 r  == round2(smooth_arg'[1])
                 s  == smoothed'[1]
                 lo == IF p < r THEN p ELSE r
                 hi == IF p < r THEN r ELSE p
                 abs(x) == IF x < 0 THEN -x ELSE x
             IN  /\ lo <= s /\ s <= hi
                 /\ abs(s) <= (IF abs(p) < abs(r) THEN abs(r) ELSE abs(p))]_vars

\* C34 witness: with the default alpha, a smoother at 100.0 given 0.0 has returned
\* 70.0.
C34_Witness ==
    /\ alpha = EMA_ALPHA
    /\ history = <<10000, 7000>>
    /\ smooth_arg = Some(FInt(0))
    /\ smoothed = Some(7000)

\* the smoothed value is within 1.0 of the sustained value
Near ==
    /\ previous_score # None
    /\ LET d == FAdd(OfHundredths(previous_score[1]), FMul(FInt(-1), last_op.v))
       IN  ~FLess(FInt(1), d) /\ ~FLess(d, FInt(-1))

\* one more call with the sustained value would return the previous value again
Settled ==
    previous_score # None /\ smooth_value(alpha, previous_score, last_op.v) = previous_score[1]

SourceCounters == {"fetch_count", "success_count", "failure_count", "total_posts"}

\* C36: after any sequence of record_fetch / record_dedup / record_cycle calls,
\* every source has fetch_count = success_count + failure_count, and from before
\* a call to after it no source disappears and none of fetch_count,
\* success_count, failure_count, total_posts, total_cycles and
\* total_dedup_collapsed decreases.
C36_CountersConsistentAndMonotone ==
    [][/\ \A name \in DOMAIN sources' :
             sources'[name].fetch_count
                = sources'[name].success_count + sources'[name].failure_count
       /\ total_cycles' >= total_cycles
       /\ dedup_count' >= dedup_count
       /\ \A name \in DOMAIN sources :
             /\ name \in DOMAIN sources'
             /\ \A c \in SourceCounters : sources'[name][c] >= sources[name][c]
    ]_vars

\* C36 witness: after calls of all three kinds, a source has two successes and
\* one failure in its three fetches.
C36_Witness ==
    /\ last_op.op = "record_cycle"
    /\ total_cycles > 0
    /\ dedup_count > 0
    /\ \E name \in DOMAIN sources :
          /\ sources[name].fetch_count = 3
          /\ sources[name].success_count = 2
          /\ sources[name].failure_count = 1
          /\ sources[name].total_posts = 4

\* the /oracle cycle just run counted at least one post
NonEmptyCycle == last_op.op = "serve" /\ snapshot # None /\ snapshot[1].post_count > 0

polarity_weight(ps, positive) ==
    FSum([i \in 1..Len(ps) |->
            IF (ps[i].sentiment.polarity_score > 0) = positive THEN weight(ps[i])
            ELSE FInt(0)])

\* the share of the total weight by which weight a exceeds weight b, in percent
lead_percent(a, b) == FMul(FDiv(FAdd(a, FMul(FInt(-1), b)), FAdd(a, b)), FInt(100))

\* C38: compute() returns raw_score > 0 whenever the total weight (engagement x
\* confidence) of the positive posts exceeds that of the negative posts,
\* raw_score < 0 whenever it is smaller, and raw_score = 0 when they are equal;
\* when all posts share one polarity and some weight is positive the score is
\* exactly MAX_SCORE (all positive) or MIN_SCORE (all negative).
C38_SignFollowsWeight ==
    snapshot # None =>
        LET P   == polarity_weight(posts, TRUE)
            N   == polarity_weight(posts, FALSE)
            raw == snapshot[1].raw_score
        IN  /\ FLess(N, P) => raw > 0
            /\ FLess(P, N) => raw < 0
            /\ P = N => raw = 0
            /\ (FLess(FInt(0), P) /\ negative_count(posts) = 0) => raw = MAX_SCORE * 100
            /\ (FLess(FInt(0), N) /\ positive_count(posts) = 0) => raw = MIN_SCORE * 100

\* C38 as amended: raw_score >= 0 whenever the positive weight exceeds the
\* negative weight and raw_score > 0 when it exceeds it by at least 0.01 percent of
\* the total weight (a smaller lead is rounded away with the score's third
\* decimal), and the same with the signs exchanged; the rest as claimed.
C38_SignFollowsWeightUpToRounding ==
    snapshot # None =>
        LET P   == polarity_weight(posts, TRUE)
            N   == polarity_weight(posts, FALSE)
            raw == snapshot[1].raw_score
        IN  /\ FLess(N, P) =>
                  /\ raw >= 0
                  /\ ~FLess(lead_percent(P, N), Frac(1, 100)) => raw > 0
            /\ FLess(P, N) =>
                  /\ raw <= 0
                  /\ ~FLess(lead_percent(N, P), Frac(1, 100)) => raw < 0
            /\ P = N => raw = 0
            /\ (FLess(FInt(0), P) /\ negative_count(posts) = 0) => raw = MAX_SCORE * 100
            /\ (FLess(FInt(0), N) /\ positive_count(posts) = 0) => raw = MIN_SCORE * 100

\* C38 witness: three posts of both polarities, the positive ones weighing more, and
\* a score between 0 and MAX_SCORE.
C38_Witness ==
    /\ snapshot # None
    /\ Len(posts) = 3
    /\ positive_count(posts) = 2
    /\ FLess(polarity_weight(posts, FALSE), polarity_weight(posts, TRUE))
    /\ FLess(FInt(0), polarity_weight(posts, FALSE))
    /\ snapshot[1].raw_score > 0
    /\ snapshot[1].raw_score < MAX_SCORE * 100

\* a post with the engagement the data model gives it: 1 when it has no
\* engagement field (vibe_score.py line 49)
with_engagement(post) ==
    IF "engagement" \in DOMAIN post THEN post ELSE Put(post, "engagement", 1)

\* C39: a post that has no engagement field is treated as having engagement 1 by
\* every stage that reads engagement: aggregate() returns the posts it would return,
\* in the same order, if every such post carried engagement 1, and compute() gives
\* them the score it would give then.
C39_MissingEngagementIsOne ==
    Aggregated =>
        LET out    == snapshot[1].result
            cap    == snapshot[1].max_posts
            filled == [i \in 1..Len(posts) |-> with_engagement(posts[i])]
            given  == [k \in 1..Len(out) |-> with_engagement(out[k])]
        IN  /\ given = aggregate(filled, cap)
            /\ snapshot[1].scored = compute(given)

\* C40: for a dataset of D > 0 rows, after every fetch_twitter_posts() call the
\* rolling index lies in [0, D), the call returns exactly
\* min(TWITTER_SAMPLE_SIZE, D) posts taken as consecutive rows starting at the
\* previous index and wrapping around at the end, and when D > TWITTER_SAMPLE_SIZE
\* two consecutive calls start at different rows (the index advances).
C40_RollingWindow ==
    [][last_op'.op = "twitter" =>
          LET rows == dataset'[1]
              D    == Len(rows)
              n    == IF TWITTER_SAMPLE_SIZE < D THEN TWITTER_SAMPLE_SIZE ELSE D
              out  == last_op'.posts
          IN  /\ rolling_index' \in 0..(D - 1)
              /\ Len(out) = n
              /\ \A i \in 1..n :
                    /\ out[i].id = <<"twitter", rows[((rolling_index + i - 1) % D) + 1]>>
                    /\ out[i].text = <<"tweet", rows[((rolling_index + i - 1) % D) + 1]>>
              /\ D > TWITTER_SAMPLE_SIZE =>
                    /\ rolling_index' # rolling_index
                    /\ last_op.called => out[1].id # last_op.posts[1].id
    ]_vars

\* C40 witness: a call on a dataset of 51 rows has started at the last row and
\* wrapped around, leaving the index at 49.
C40_Witness ==
    /\ last_op.op = "twitter"
    /\ last_op.called
    /\ Len(last_op.csv) = 51
    /\ last_op.posts[1].id = <<"twitter", last_op.csv[51]>>
    /\ last_op.posts[2].id = <<"twitter", last_op.csv[1]>>
    /\ Len(last_op.posts) = TWITTER_SAMPLE_SIZE
    /\ rolling_index = 49

\* C19: compute() applied to any permutation of the same list of analyzed posts, or
\* applied twice to the same list, returns the same raw_score, post_count,
\* positive_count and negative_count.
C19_OrderIndependent ==
    [][(snapshot # None /\ snapshot' # None) => snapshot' = snapshot]_vars

====
